---- MODULE Spec2Model ----
(***************************************************************************)
(* Retrieval core of the RAG backend: the FAISS vector index with its      *)
(* chunk map (EmbeddingService), the two files it persists, and the HTTP   *)
(* handlers that drive it from the single asyncio event loop.              *)
(*                                                                         *)
(* A handler is a coroutine: it runs without interruption from one await   *)
(* to the next.  Every statement of EmbeddingService is synchronous, so    *)
(* the statements of add_document_chunks, remove_document and search are   *)
(* separate steps of the model, but only the handler that is executing     *)
(* them can take a step until it reaches its next await.                   *)
(***************************************************************************)
EXTENDS Integers, Sequences, FiniteSets, TLC

\* ---------------------------------------------------------------- bounds
MaxDocs == 2        \* document ids (uuid4 values) handed out in one run
MaxChunks == 2      \* chunks of one document
NReq == 2           \* request slots: handlers in flight at the same time
NTexts == 2         \* distinct chunk / query texts
Dim == 2            \* get_sentence_embedding_dimension() of the model

DefaultTopK == 5    \* settings.top_k

Docs == 1..MaxDocs
NoDoc == 0
Reqs == 1..NReq
Texts == 1..NTexts
TopKs == {-1, 0, 1, 2}

VARIABLES
    status,       \* "down": no process / service not constructed, "up", "failed": _load_index raised
    boot,         \* branch _load_index took: "none", "loaded", "created"
    index,        \* self._index: [d, xb], xb the flat float array of ntotal*d values
    chunk_map,    \* self._chunk_map: sequence of <<doc_id, chunk_index>>
    fileIndex,    \* embeddings/faiss.index
    fileMap,      \* embeddings/chunk_map.json
    metadata,     \* ids with an entry in metadata.json
    nextId,       \* number of uuid4 ids handed out
    req,          \* the handlers in flight
    given,        \* history: chunk texts passed to add_document_chunks, per document
    removedDocs,  \* history: ids for which remove_document has returned and
                  \* add_document_chunks was not called since
    lastMem,      \* history: the vector count and chunk map in memory when the
                  \* process last stopped, until the next start
    metaFile,     \* metadata.json as a file: [st, len], st "ok" (holds the mapping
                  \* `metadata`), "trunc" (opened for writing, nothing written yet),
                  \* "corrupt" (a shorter text written over a longer one, len entries long)
    rawFiles,     \* ids with a raw/{id}.txt file
    chunkFiles,   \* chunks/{id}.json per id: [ex, chunks]
    savedDocs,    \* history: ids save_document has returned
    deletedDocs,  \* history: ids for which delete_document has returned True
    chunkCount,   \* "chunk_count" of the metadata entry save_document made, per id
    audio_buffer, \* voice_websocket: the bytes in audio_buffer
    voice         \* voice_websocket: where the handler of the session is, whether
                  \* the client is still connected, and history: the last client
                  \* message read, whether it found audio, the messages sent since

vars == <<status, boot, index, chunk_map, fileIndex, fileMap, metadata, nextId,
          req, given, removedDocs, lastMem,
          metaFile, rawFiles, chunkFiles, savedDocs, deletedDocs, chunkCount,
          audio_buffer, voice>>

\* the session of /ws/voice
voiceVars == <<audio_buffer, voice>>

\* the files of the chunk store and the history of its calls
storeVars == <<metaFile, rawFiles, chunkFiles, savedDocs, deletedDocs, chunkCount>>

\* ------------------------------------------------------- vectors and index
\* self._model.encode: one float32 vector of Dim values per text, the same
\* vector for the same text, different vectors for different texts.
Embed(t) == [j \in 1..Dim |-> t * j]

\* embed_texts: one vector per text, in the order of the texts
EmbedTexts(texts) == [i \in 1..Len(texts) |-> Embed(texts[i])]

RECURSIVE Flatten(_)
\* the row-major float buffer of a sequence of vectors, as IndexFlatL2.add appends it
Flatten(vs) == IF vs = <<>> THEN <<>> ELSE Head(vs) \o Flatten(Tail(vs))

\* faiss.IndexFlatL2(dim)
IndexFlatL2(dim) == [d |-> dim, xb |-> <<>>]

\* index.ntotal
NTotal(ix) == Len(ix.xb) \div ix.d

\* index.add(vectors)
IndexAdd(ix, vs) == [ix EXCEPT !.xb = ix.xb \o Flatten(vs)]

\* rev_swig_ptr(get_xb(), ntotal * d).reshape(ntotal, d): row i (0-based)
Row(ix, i) == SubSeq(ix.xb, i * ix.d + 1, (i + 1) * ix.d)

\* mutant: the first len(keep) rows instead of the rows at the kept positions
KeptVectorsFirstRows(ix, keep) == [k \in 1..Len(keep) |-> Row(ix, k - 1)]

\* all_vectors[indices_to_keep]
KeptVectors(ix, keep) == [k \in 1..Len(keep) |-> Row(ix, keep[k])]

RECURSIVE IndicesFrom(_, _, _)
\* [i for i, (did, _) in enumerate(chunk_map) if did != doc_id], from position i on
IndicesFrom(m, doc, i) ==
    IF i >= Len(m) THEN <<>>
    ELSE IF m[i + 1][1] # doc THEN <<i>> \o IndicesFrom(m, doc, i + 1)
         ELSE IndicesFrom(m, doc, i + 1)

\* mutant: the scan starts at position 1 and position 0 is always kept
IndicesToKeepFromOne(m, doc) ==
    IF m = <<>> THEN <<>> ELSE <<0>> \o IndicesFrom(m, doc, 1)

IndicesToKeep(m, doc) == IndicesFrom(m, doc, 0)

\* mutant: the chunk map is not filtered
KeptMapUnfiltered(m, keep) == m

\* [self._chunk_map[i] for i in indices_to_keep]
KeptMap(m, keep) == [k \in 1..Len(keep) |-> m[keep[k] + 1]]

\* mutant: local indices counted from 1
NewEntriesOneBased(doc, n) == [i \in 1..n |-> <<doc, i>>]

\* the entries (doc_id, 0) .. (doc_id, n-1) appended by add_document_chunks
NewEntries(doc, n) == [i \in 1..n |-> <<doc, i - 1>>]

\* ------------------------------------------------------------ the two files
Absent == [st |-> "absent", d |-> 0, xb |-> <<>>, items |-> <<>>]
\* a file that was opened for writing and not written to the end
Torn == [st |-> "torn", d |-> 0, xb |-> <<>>, items |-> <<>>]

\* faiss.write_index(index, path), completed
WriteIndex(ix) == [st |-> "ok", d |-> ix.d, xb |-> ix.xb, items |-> <<>>]

\* mutant: the map is dumped without its last entry
JsonDumpStale(m) ==
    [st |-> "ok", d |-> 0, xb |-> <<>>,
     items |-> [k \in 1..(Len(m) - 1) |-> [e0 |-> m[k][1], e1 |-> m[k][2]]]]

\* json.dump(chunk_map): a tuple is written as a JSON array of its two elements
JsonDump(m) == [st |-> "ok", d |-> 0, xb |-> <<>>,
                items |-> [k \in 1..Len(m) |-> [e0 |-> m[k][1], e1 |-> m[k][2]]]]

\* faiss.read_index(path)
ReadIndex(f) == [d |-> f.d, xb |-> f.xb]

\* [tuple(item) for item in json.load(f)]
JsonLoad(f) == [k \in 1..Len(f.items) |-> <<f.items[k].e0, f.items[k].e1>>]

\* Path.exists()
Exists(f) == f.st # "absent"

\* ------------------------------------------------------------------ search
RECURSIVE SumSq(_, _, _)
SumSq(u, v, j) == IF j = 0 THEN 0 ELSE (u[j] - v[j]) * (u[j] - v[j]) + SumSq(u, v, j - 1)

\* the squared L2 distance IndexFlatL2 reports
Distance(u, v) == SumSq(u, v, Len(u))

RECURSIVE Nearest(_, _, _, _)
\* index.search(q, k): the positions of the k nearest vectors by ascending
\* distance; the order among equally distant vectors is not specified by the
\* library, so every such order is a possible outcome
Nearest(ix, qv, remaining, k) ==
    IF k = 0 \/ remaining = {} THEN {<<>>}
    ELSE LET best == {p \in remaining :
                        \A o \in remaining :
                            Distance(Row(ix, p), qv) <= Distance(Row(ix, o), qv)}
         IN UNION {{<<p>> \o s : s \in Nearest(ix, qv, remaining \ {p}, k - 1)} : p \in best}

IndexSearch(ix, qv, k) == Nearest(ix, qv, 0..(NTotal(ix) - 1), k)

\* mutant: the configured default is used whatever the caller supplied
EffectiveTopKAlwaysDefault(topk) == DefaultTopK

\* top_k = top_k or settings.top_k
EffectiveTopK(topk) == IF ~topk.some \/ topk.val = 0 THEN DefaultTopK ELSE topk.val

\* min(top_k, self._index.ntotal)
SearchK(ix, topk) == IF EffectiveTopK(topk) < NTotal(ix) THEN EffectiveTopK(topk) ELSE NTotal(ix)

\* the label index.search gives a slot for which it found no neighbour
NoNeighbour == -1

\* the distance index.search gives such a slot (the largest float)
NoNeighbourDistance == 1000

\* self._chunk_map[idx]: Python counts a negative idx from the end of the list
ListItem(m, idx) == IF idx >= 0 THEN m[idx + 1] ELSE m[Len(m) + idx + 1]

RECURSIVE Resolve(_, _, _, _)
\* the loop over zip(distances[0], indices[0]): a position is resolved through
\* the chunk map when idx < len(chunk_map) and skipped otherwise
Resolve(ix, m, qv, order) ==
    IF order = <<>> THEN <<>>
    ELSE LET idx == Head(order)
             rest == Resolve(ix, m, qv, Tail(order))
         IN IF idx < Len(m)
            THEN <<[doc |-> ListItem(m, idx)[1], chunk |-> ListItem(m, idx)[2],
                    dist |-> IF idx = NoNeighbour THEN NoNeighbourDistance
                             ELSE Distance(Row(ix, idx), qv),
                    pos |-> idx]>> \o rest
            ELSE rest

\* ---------------------------------------------------------------- handlers
NoTopK == [some |-> FALSE, val |-> 0]
\* build_context of no chunks is the text "No relevant documents found."
NoContext == [none |-> TRUE, parts |-> <<>>]

\* the dict query_rag returns before any retrieval: no "answer" key, no "llm_error"
NoResult == [chunks |-> <<>>, context |-> NoContext, answer |-> "none", llm_error |-> FALSE]

\* get_chunk_text returns None
NoText == 0

\* no /ws/voice session: the handler has not accepted one or has ended
NoSession == [pc |-> "closed", connected |-> FALSE, last |-> "none",
              had_audio |-> FALSE, sent |-> <<>>, speech |-> FALSE,
              action |-> "none"]

NoPre == [d |-> 0, xb |-> <<>>, map |-> <<>>, fidx |-> Absent, fmap |-> Absent]

IdleReq == [kind |-> "none", pc |-> "idle", doc |-> NoDoc, chunks |-> <<>>,
            emb |-> <<>>, keep |-> <<>>, query |-> 0, topk |-> NoTopK,
            results |-> <<>>, seenN |-> 0, seenMap |-> 0, seenRemoved |-> {},
            pre |-> NoPre, meta |-> {}, ok |-> FALSE,
            i |-> 0, hits |-> <<>>, result |-> NoResult, gen |-> "none",
            events |-> <<>>, text |-> NoText]

\* (seenN, seenMap, seenRemoved: history of what a search read: ntotal,
\* len(chunk_map) and the removed ids at the time it ran)
\* the state a call of add_document_chunks / remove_document starts from
Snapshot == [d |-> index.d, xb |-> index.xb, map |-> chunk_map,
             fidx |-> fileIndex, fmap |-> fileMap]

\* mutant: handlers run on preemptive threads, every program point can be left
AwaitPointsPreemptive ==
    {"idle", "up_save", "del_get", "del_store", "q_resolve",
     "sd_load", "sd_loaded", "sm_open", "sm_flush", "sm_closed", "del_got",
     "dd_loaded", "dd_return", "store_raised",
     "rt_meta", "rt_chunk", "qr_context", "qr_generate", "qr_return",
     "qs_generate", "qs_token", "qs_end",
     "add_enter", "add_embed", "add_index", "add_map", "add_return", "add_raised",
     "save_idx_open", "save_idx_write", "save_map_open", "save_map_write",
     "rm_enter", "rm_set_index", "rm_set_map", "rm_return", "rm_raised", "del_404",
     "q_search", "q_searched", "q_raised"}

\* Program points at which a handler is suspended in an await (or has not
\* started): documents.py awaits file.read() and save_document() (one point
\* of the model, file.read() touches no state), get_document() and
\* delete_document(); rag_service.retrieve awaits after search returned.
\* No statement of EmbeddingService awaits.
\* Inside document_service every aiofiles call is awaited: load_metadata
\* ("sd_load", "del_get", "del_store" wait for the read, "sd_loaded", "del_got",
\* "dd_loaded" for the resumption after it) and save_metadata ("sm_open" waits
\* for the open, "sm_flush" for the write and close, "sm_closed" for the
\* resumption after the close).
\* retrieve awaits load_metadata ("rt_meta") and each get_chunk_text
\* ("rt_chunk"); query_rag awaits llm.generate ("qr_generate"); the generator
\* query_rag_stream is suspended in generate_stream ("qs_generate") and at
\* the yield of the token ("qs_token").
AwaitPoints == {"idle", "gct_read", "up_save", "del_get", "del_store", "q_resolve",
                "sd_load", "sd_loaded", "sm_open", "sm_flush", "sm_closed",
                "del_got", "dd_loaded",
                "rt_meta", "rt_chunk", "qr_generate", "qs_generate", "qs_token"}

\* Program points inside add_document_chunks and remove_document between the
\* first write to the index or the chunk map and the end of _save_index.
MutationPcs == {"add_map", "rm_set_map", "save_idx_open", "save_idx_write",
                "save_map_open", "save_map_write"}

\* the event loop resumes handler r only when no other handler is between awaits
CanRun(r) == status = "up" /\ \A o \in Reqs \ {r} : req[o].pc \in AwaitPoints

At(r, pc) == CanRun(r) /\ req[r].pc = pc

Goto(r, pc) == req' = [req EXCEPT ![r].pc = pc]

ChunkLists == UNION {[1..n -> Texts] : n \in 0..MaxChunks}

NoMem == [n |-> 0, map |-> <<>>]

\* a chunks/{id}.json that does not exist, and one holding the list chunks
NoFile == [ex |-> FALSE, chunks |-> <<>>]
ChunkFile(chunks) == [ex |-> TRUE, chunks |-> chunks]

\* metadata.json holding the mapping `metadata` in full
MetaOk == [st |-> "ok", len |-> 0]

Init ==
    /\ status = "down"
    /\ boot = "none"
    /\ index = IndexFlatL2(Dim)
    /\ chunk_map = <<>>
    /\ fileIndex = Absent
    /\ fileMap = Absent
    /\ metadata = {}
    /\ nextId = 0
    /\ req = [r \in Reqs |-> IdleReq]
    /\ given = [d \in Docs |-> <<>>]
    /\ removedDocs = {}
    /\ lastMem = NoMem
    /\ metaFile = MetaOk
    /\ rawFiles = {}
    /\ chunkFiles = [d \in Docs |-> NoFile]
    /\ savedDocs = {}
    /\ deletedDocs = {}
    /\ chunkCount = [d \in Docs |-> 0]
    /\ audio_buffer = <<>>
    /\ voice = NoSession

\* ------------------------------------------- process start: _load_index
\* EmbeddingService.__init__ -> _load_index, both files exist and are readable
LoadExisting ==
    /\ status = "down"
    /\ Exists(fileIndex) /\ Exists(fileMap)
    /\ fileIndex.st = "ok" /\ fileMap.st = "ok"
    /\ index' = ReadIndex(fileIndex)
    /\ chunk_map' = JsonLoad(fileMap)
    /\ status' = "up"
    /\ boot' = "loaded"
    /\ UNCHANGED <<fileIndex, fileMap, metadata, nextId, req, given, removedDocs, storeVars,
                   voiceVars>>
    /\ lastMem' = NoMem

\* _load_index, else branch: one of the files is missing
LoadCreate ==
    /\ status = "down"
    /\ ~(Exists(fileIndex) /\ Exists(fileMap))
    /\ index' = IndexFlatL2(Dim)
    /\ chunk_map' = <<>>
    /\ status' = "up"
    /\ boot' = "created"
    /\ UNCHANGED <<fileIndex, fileMap, metadata, nextId, req, given, removedDocs, storeVars,
                   voiceVars>>
    /\ lastMem' = NoMem

\* _load_index: faiss.read_index or json.load raises on a file that was not
\* written to its end; the exception leaves __init__ and startup fails
LoadRaise ==
    /\ status = "down"
    /\ Exists(fileIndex) /\ Exists(fileMap)
    /\ fileIndex.st = "torn" \/ fileMap.st = "torn"
    /\ status' = "failed"
    /\ boot' = "none"
    /\ UNCHANGED <<index, chunk_map, fileIndex, fileMap, metadata, nextId, req,
                   given, removedDocs, lastMem, storeVars, voiceVars>>

\* the process ends while every handler is suspended or finished (shutdown)
Stop ==
    /\ status = "up"
    /\ \A r \in Reqs : req[r].pc \in AwaitPoints
    /\ status' = "down"
    /\ boot' = "none"
    /\ index' = IndexFlatL2(Dim)
    /\ chunk_map' = <<>>
    /\ req' = [r \in Reqs |-> IdleReq]
    /\ UNCHANGED <<fileIndex, fileMap, metadata, nextId, given, removedDocs, storeVars>>
    /\ audio_buffer' = <<>>
    /\ voice' = NoSession
    /\ lastMem' = [n |-> NTotal(index), map |-> chunk_map]

\* the process is killed at an arbitrary statement
Crash ==
    /\ status = "up"
    /\ \E r \in Reqs : req[r].pc \notin AwaitPoints
    /\ status' = "down"
    /\ boot' = "none"
    /\ index' = IndexFlatL2(Dim)
    /\ chunk_map' = <<>>
    /\ req' = [r \in Reqs |-> IdleReq]
    /\ UNCHANGED <<fileIndex, fileMap, metadata, nextId, given, removedDocs, storeVars>>
    /\ audio_buffer' = <<>>
    /\ voice' = NoSession
    /\ lastMem' = [n |-> NTotal(index), map |-> chunk_map]

\* ------------------------------------------------- POST /documents (upload)
\* a request arrives; the handler awaits file.read(), then save_document
NewUpload(r) ==
    /\ At(r, "idle")
    /\ req' = [req EXCEPT ![r] = [IdleReq EXCEPT !.kind = "upload", !.pc = "up_save"]]
    /\ UNCHANGED <<status, boot, index, chunk_map, fileIndex, fileMap, metadata,
                   nextId, given, removedDocs, lastMem, storeVars, voiceVars>>

\* save_document returns (doc_id, chunks): a fresh uuid4, the chunker's output,
\* and the document recorded in metadata.json; the handler goes on to
\* add_document_chunks without awaiting
UpSaveDocument(r) ==
    /\ At(r, "up_save")
    /\ nextId < MaxDocs
    /\ \E chunks \in ChunkLists :
          /\ req' = [req EXCEPT ![r].doc = nextId + 1, ![r].chunks = chunks,
                                ![r].pc = "add_enter"]
          /\ chunkFiles' = [chunkFiles EXCEPT ![nextId + 1] = ChunkFile(chunks)]
          /\ chunkCount' = [chunkCount EXCEPT ![nextId + 1] = Len(chunks)]
    /\ nextId' = nextId + 1
    /\ rawFiles' = rawFiles \cup {nextId + 1}
    /\ metadata' = metadata \cup {nextId + 1}
    /\ savedDocs' = savedDocs \cup {nextId + 1}
    /\ UNCHANGED <<status, boot, index, chunk_map, fileIndex, fileMap, given,
                   removedDocs, lastMem, metaFile, deletedDocs, voiceVars>>

\* add_document_chunks without the early return for an empty list
AddEnterNoEarlyReturn(r) ==
    /\ At(r, "add_enter")
    /\ req' = [req EXCEPT ![r].pc = "add_embed", ![r].pre = Snapshot]
    /\ given' = [given EXCEPT ![req[r].doc] = req[r].chunks]
    /\ removedDocs' = removedDocs \ {req[r].doc}
    /\ UNCHANGED <<status, boot, index, chunk_map, fileIndex, fileMap, metadata,
                   nextId, lastMem, storeVars, voiceVars>>

\* add_document_chunks: if not chunks: return
AddEnter(r) ==
    /\ At(r, "add_enter")
    /\ req' = [req EXCEPT ![r].pc = IF req[r].chunks = <<>> THEN "add_return" ELSE "add_embed",
                          ![r].pre = Snapshot]
    /\ given' = [given EXCEPT ![req[r].doc] = req[r].chunks]
    /\ removedDocs' = removedDocs \ {req[r].doc}
    /\ UNCHANGED <<status, boot, index, chunk_map, fileIndex, fileMap, metadata,
                   nextId, lastMem, storeVars, voiceVars>>

\* embeddings = self.embed_texts(chunks)
AddEmbed(r) ==
    /\ At(r, "add_embed")
    /\ req' = [req EXCEPT ![r].emb = EmbedTexts(req[r].chunks), ![r].pc = "add_index"]
    /\ UNCHANGED <<status, boot, index, chunk_map, fileIndex, fileMap, metadata,
                   nextId, given, removedDocs, lastMem, storeVars, voiceVars>>

\* mutant: chunks are embedded and added one by one, the first is in the index
\* when the embedding of a later one raises
AddEmbedRaisePartial(r) ==
    /\ At(r, "add_embed")
    /\ index' = IndexAdd(index, <<Embed(req[r].chunks[1])>>)
    /\ Goto(r, "add_raised")
    /\ UNCHANGED <<status, boot, chunk_map, fileIndex, fileMap, metadata,
                   nextId, given, removedDocs, lastMem, storeVars, voiceVars>>

\* embed_texts raises: the exception leaves add_document_chunks and the handler
AddEmbedRaise(r) ==
    /\ At(r, "add_embed")
    /\ Goto(r, "add_raised")
    /\ UNCHANGED <<status, boot, index, chunk_map, fileIndex, fileMap, metadata,
                   nextId, given, removedDocs, lastMem, storeVars, voiceVars>>

\* self._index.add(embeddings.astype(np.float32)); the embeddings are float32
\* already, the cast changes no value
AddIndex(r) ==
    /\ At(r, "add_index")
    /\ index.d = Dim
    /\ index' = IndexAdd(index, req[r].emb)
    /\ Goto(r, "add_map")
    /\ UNCHANGED <<status, boot, chunk_map, fileIndex, fileMap, metadata, nextId,
                   given, removedDocs, lastMem, storeVars, voiceVars>>

\* index.add checks the width of the array against index.d and raises on
\* a different one; nothing was changed before
AddIndexRaise(r) ==
    /\ At(r, "add_index")
    /\ index.d # Dim
    /\ Goto(r, "add_raised")
    /\ UNCHANGED <<status, boot, index, chunk_map, fileIndex, fileMap, metadata,
                   nextId, given, removedDocs, lastMem, storeVars, voiceVars>>

\* for i in range(len(chunks)): self._chunk_map.append((doc_id, i))
AddMap(r) ==
    /\ At(r, "add_map")
    /\ chunk_map' = chunk_map \o NewEntries(req[r].doc, Len(req[r].chunks))
    /\ Goto(r, "save_idx_open")
    /\ UNCHANGED <<status, boot, index, fileIndex, fileMap, metadata, nextId,
                   given, removedDocs, lastMem, storeVars, voiceVars>>

\* ---------------------------------------------------------- _save_index
\* faiss.write_index opens faiss.index for writing, which truncates it
SaveIndexOpen(r) ==
    /\ At(r, "save_idx_open")
    /\ fileIndex' = Torn
    /\ Goto(r, "save_idx_write")
    /\ UNCHANGED <<status, boot, index, chunk_map, fileMap, metadata, nextId,
                   given, removedDocs, lastMem, storeVars, voiceVars>>

\* faiss.write_index writes the index and closes the file
SaveIndexWrite(r) ==
    /\ At(r, "save_idx_write")
    /\ fileIndex' = WriteIndex(index)
    /\ Goto(r, "save_map_open")
    /\ UNCHANGED <<status, boot, index, chunk_map, fileMap, metadata, nextId,
                   given, removedDocs, lastMem, storeVars, voiceVars>>

\* open(chunk_map.json, "w") truncates the file
SaveMapOpen(r) ==
    /\ At(r, "save_map_open")
    /\ fileMap' = Torn
    /\ Goto(r, "save_map_write")
    /\ UNCHANGED <<status, boot, index, chunk_map, fileIndex, metadata, nextId,
                   given, removedDocs, lastMem, storeVars, voiceVars>>

\* json.dump(self._chunk_map, f) and the close of the file; _save_index and
\* its caller return
SaveMapWrite(r) ==
    /\ At(r, "save_map_write")
    /\ fileMap' = JsonDump(chunk_map)
    /\ Goto(r, IF req[r].kind = "upload" THEN "add_return" ELSE "rm_return")
    /\ UNCHANGED <<status, boot, index, chunk_map, fileIndex, metadata, nextId,
                   given, removedDocs, lastMem, storeVars, voiceVars>>

\* ------------------------------------------ DELETE /documents/{doc_id}
\* a request arrives; the handler awaits document_service.get_document
NewDelete(r) ==
    /\ At(r, "idle")
    /\ \E d \in Docs :
          req' = [req EXCEPT ![r] = [IdleReq EXCEPT !.kind = "delete", !.pc = "del_get",
                                                    !.doc = d]]
    /\ UNCHANGED <<status, boot, index, chunk_map, fileIndex, fileMap, metadata,
                   nextId, given, removedDocs, lastMem, storeVars, voiceVars>>

\* get_document returns: 404 when the id has no metadata entry, else the
\* handler goes on to remove_document without awaiting
DelGet(r) ==
    /\ At(r, "del_get")
    /\ Goto(r, IF req[r].doc \in metadata THEN "rm_enter" ELSE "del_404")
    /\ UNCHANGED <<status, boot, index, chunk_map, fileIndex, fileMap, metadata,
                   nextId, given, removedDocs, lastMem, storeVars, voiceVars>>

\* mutant: remove_document rebuilds and saves even when every entry is kept
RmEnterAlwaysRebuild(r) ==
    /\ At(r, "rm_enter")
    /\ LET keep == IndicesToKeep(chunk_map, req[r].doc)
       IN req' = [req EXCEPT ![r].keep = keep, ![r].pre = Snapshot,
                             ![r].pc = "rm_set_index"]
    /\ UNCHANGED <<status, boot, index, chunk_map, fileIndex, fileMap, metadata,
                   nextId, given, removedDocs, lastMem, storeVars, voiceVars>>

\* remove_document: indices_to_keep; return when every entry is kept
RmEnter(r) ==
    /\ At(r, "rm_enter")
    /\ LET keep == IndicesToKeep(chunk_map, req[r].doc)
       IN req' = [req EXCEPT ![r].keep = keep, ![r].pre = Snapshot,
                             ![r].pc = IF Len(keep) = Len(chunk_map)
                                       THEN "rm_return" ELSE "rm_set_index"]
    /\ UNCHANGED <<status, boot, index, chunk_map, fileIndex, fileMap, metadata,
                   nextId, given, removedDocs, lastMem, storeVars, voiceVars>>

\* mutant: the kept rows are added to the old index instead of a new one
RebuiltIndexOntoOld(ix, keep) ==
    IF keep = <<>> THEN IndexFlatL2(Dim)
    ELSE IndexAdd(ix, KeptVectors(ix, keep))

\* the new index of remove_document: a fresh one when nothing is kept, else
\* one holding the kept rows of the old index
RebuiltIndex(ix, keep) ==
    IF keep = <<>> THEN IndexFlatL2(Dim)
    ELSE IndexAdd(IndexFlatL2(Dim), KeptVectors(ix, keep))

\* self._index = faiss.IndexFlatL2(dim)   /   self._index = new_index
RmSetIndex(r) ==
    /\ At(r, "rm_set_index")
    /\ \A k \in 1..Len(req[r].keep) : req[r].keep[k] < NTotal(index)
    /\ req[r].keep = <<>> \/ index.d = Dim
    /\ index' = RebuiltIndex(index, req[r].keep)
    /\ Goto(r, "rm_set_map")
    /\ UNCHANGED <<status, boot, chunk_map, fileIndex, fileMap, metadata, nextId,
                   given, removedDocs, lastMem, storeVars, voiceVars>>

\* all_vectors[indices_to_keep] raises IndexError when a kept position is not
\* a row of the index
RmIndexError(r) ==
    /\ At(r, "rm_set_index")
    /\ \E k \in 1..Len(req[r].keep) : req[r].keep[k] >= NTotal(index)
    /\ Goto(r, "rm_raised")
    /\ UNCHANGED <<status, boot, index, chunk_map, fileIndex, fileMap, metadata,
                   nextId, given, removedDocs, lastMem, storeVars, voiceVars>>

\* new_index.add(kept_vectors) raises when the rows of the old index are not
\* as wide as the model's vectors; self._index is not assigned
RmAddRaise(r) ==
    /\ At(r, "rm_set_index")
    /\ \A k \in 1..Len(req[r].keep) : req[r].keep[k] < NTotal(index)
    /\ req[r].keep # <<>> /\ index.d # Dim
    /\ Goto(r, "rm_raised")
    /\ UNCHANGED <<status, boot, index, chunk_map, fileIndex, fileMap, metadata,
                   nextId, given, removedDocs, lastMem, storeVars, voiceVars>>

\* self._chunk_map = []   /   self._chunk_map = [self._chunk_map[i] for i in indices_to_keep]
RmSetMap(r) ==
    /\ At(r, "rm_set_map")
    /\ chunk_map' = KeptMap(chunk_map, req[r].keep)
    /\ Goto(r, "save_idx_open")
    /\ UNCHANGED <<status, boot, index, fileIndex, fileMap, metadata, nextId,
                   given, removedDocs, lastMem, storeVars, voiceVars>>

\* remove_document returns; the handler awaits document_service.delete_document
RmReturn(r) ==
    /\ At(r, "rm_return")
    /\ removedDocs' = removedDocs \cup {req[r].doc}
    /\ given' = [given EXCEPT ![req[r].doc] = <<>>]
    /\ req' = [req EXCEPT ![r] = [IdleReq EXCEPT !.kind = "delete", !.pc = "del_store",
                                                 !.doc = req[r].doc]]
    /\ UNCHANGED <<status, boot, index, chunk_map, fileIndex, fileMap, metadata,
                   nextId, lastMem, storeVars, voiceVars>>

\* delete_document removes the files of the document and its metadata entry
DelStore(r) ==
    /\ At(r, "del_store")
    /\ metadata' = metadata \ {req[r].doc}
    /\ rawFiles' = rawFiles \ {req[r].doc}
    /\ chunkFiles' = [chunkFiles EXCEPT ![req[r].doc] = NoFile]
    /\ deletedDocs' = IF req[r].doc \in metadata THEN deletedDocs \cup {req[r].doc}
                      ELSE deletedDocs
    /\ chunkCount' = [chunkCount EXCEPT ![req[r].doc] = 0]
    /\ req' = [req EXCEPT ![r] = IdleReq]
    /\ UNCHANGED <<status, boot, index, chunk_map, fileIndex, fileMap, nextId,
                   given, removedDocs, lastMem, metaFile, savedDocs,
                   voiceVars>>

\* ------------------------------------------- document_service, await by await
\* load_metadata: {} when the file holds no text, else the mapping it holds
ReadMetadata == IF metaFile.st = "ok" THEN metadata ELSE {}

\* the length of the text in metadata.json, in entries
MetaLen == IF metaFile.st = "ok" THEN Cardinality(metadata)
           ELSE IF metaFile.st = "trunc" THEN 0 ELSE metaFile.len

\* the text of a chunk that is empty once stripped
EmptyText == 0

\* what the chunker returns for the text of an upload: chunks whose text is
\* empty or not, with or without white space around it (one text: the
\* lengths matter to the chunk store, the texts do not)
ChunkerOutputs ==
    UNION {[1..n -> [text : {EmptyText, 1}, padded : BOOLEAN]] : n \in 0..MaxChunks}

\* chunk.text.strip()
Strip(chunk) == chunk.text

\* chunk_text: [chunk.text.strip() for chunk in chunks if chunk.text.strip()]
ChunkText(out) ==
    LET NonEmpty(t) == t # EmptyText
    IN SelectSeq([i \in 1..Len(out) |-> Strip(out[i])], NonEmpty)

\* save_document up to its load_metadata: uuid4, the raw file, decode and
\* chunk_text, the chunks file
SdWriteFiles(r) ==
    /\ At(r, "up_save")
    /\ nextId < MaxDocs
    /\ \E out \in ChunkerOutputs :
          LET chunks == ChunkText(out)
          IN /\ req' = [req EXCEPT ![r].doc = nextId + 1, ![r].chunks = chunks,
                                   ![r].pc = "sd_load"]
             /\ chunkFiles' = [chunkFiles EXCEPT ![nextId + 1] = ChunkFile(chunks)]
    /\ nextId' = nextId + 1
    /\ rawFiles' = rawFiles \cup {nextId + 1}
    /\ UNCHANGED <<status, boot, index, chunk_map, fileIndex, fileMap, metadata,
                   given, removedDocs, lastMem, metaFile, savedDocs, deletedDocs,
                   chunkCount, voiceVars>>

\* save_document of bytes that are not UTF-8: uuid4, the raw file is written,
\* content.decode("utf-8") raises UnicodeDecodeError, which leaves
\* save_document and the handler (a 500 response)
SdDecodeRaise(r) ==
    /\ At(r, "up_save")
    /\ nextId < MaxDocs
    /\ req' = [req EXCEPT ![r].doc = nextId + 1, ![r].pc = "decode_raised"]
    /\ nextId' = nextId + 1
    /\ rawFiles' = rawFiles \cup {nextId + 1}
    /\ UNCHANGED <<status, boot, index, chunk_map, fileIndex, fileMap, metadata,
                   given, removedDocs, lastMem, metaFile, chunkFiles, savedDocs,
                   deletedDocs, chunkCount, voiceVars>>

\* the program point a handler is resumed at with the result of load_metadata
Loaded(pc) == IF pc = "sd_load" THEN "sd_loaded"
              ELSE IF pc = "del_get" THEN "del_got" ELSE "dd_loaded"

\* load_metadata reads metadata.json (called by save_document, get_document
\* and delete_document)
LoadMetadata(r) ==
    /\ CanRun(r)
    /\ req[r].pc \in {"sd_load", "del_get", "del_store"}
    /\ metaFile.st # "corrupt"
    /\ req' = [req EXCEPT ![r].meta = ReadMetadata, ![r].pc = Loaded(req[r].pc)]
    /\ UNCHANGED <<status, boot, index, chunk_map, fileIndex, fileMap, metadata,
                   nextId, given, removedDocs, lastMem, storeVars, voiceVars>>

\* json.loads raises on a text that is not one JSON document
LoadMetadataRaise(r) ==
    /\ CanRun(r)
    /\ req[r].pc \in {"sd_load", "del_get", "del_store"}
    /\ metaFile.st = "corrupt"
    /\ req' = [req EXCEPT ![r].meta = {}, ![r].pc = "store_raised"]
    /\ UNCHANGED <<status, boot, index, chunk_map, fileIndex, fileMap, metadata,
                   nextId, given, removedDocs, lastMem, storeVars, voiceVars>>

\* save_document: metadata[doc_id] = {...}; await save_metadata(metadata)
SdSetEntry(r) ==
    /\ At(r, "sd_loaded")
    /\ req' = [req EXCEPT ![r].meta = req[r].meta \cup {req[r].doc}, ![r].pc = "sm_open"]
    /\ chunkCount' = [chunkCount EXCEPT ![req[r].doc] = Len(req[r].chunks)]
    /\ UNCHANGED <<status, boot, index, chunk_map, fileIndex, fileMap, metadata,
                   nextId, given, removedDocs, lastMem, metaFile, rawFiles,
                   chunkFiles, savedDocs, deletedDocs, voiceVars>>

\* save_metadata: aiofiles.open(METADATA_FILE, "w") empties the file
SmOpen(r) ==
    /\ At(r, "sm_open")
    /\ metaFile' = [st |-> "trunc", len |-> 0]
    /\ Goto(r, "sm_flush")
    /\ UNCHANGED <<status, boot, index, chunk_map, fileIndex, fileMap, metadata,
                   nextId, given, removedDocs, lastMem, rawFiles, chunkFiles,
                   savedDocs, deletedDocs, chunkCount, voiceVars>>

\* save_metadata: f.write and the close put the text at offset 0 of the file;
\* what a longer text written since the open left behind it stays
SmFlush(r) ==
    /\ At(r, "sm_flush")
    /\ IF Cardinality(req[r].meta) >= MetaLen
       THEN metaFile' = MetaOk /\ metadata' = req[r].meta
       ELSE metaFile' = [st |-> "corrupt", len |-> MetaLen] /\ metadata' = {}
    /\ Goto(r, "sm_closed")
    /\ UNCHANGED <<status, boot, index, chunk_map, fileIndex, fileMap,
                   nextId, given, removedDocs, lastMem, rawFiles, chunkFiles,
                   savedDocs, deletedDocs, chunkCount, voiceVars>>

\* save_document returns (doc_id, chunks); the handler goes on to
\* add_document_chunks without awaiting
SdReturn(r) ==
    /\ At(r, "sm_closed")
    /\ req[r].kind = "upload"
    /\ savedDocs' = savedDocs \cup {req[r].doc}
    /\ req' = [req EXCEPT ![r].meta = {}, ![r].pc = "add_enter"]
    /\ UNCHANGED <<status, boot, index, chunk_map, fileIndex, fileMap, metadata,
                   nextId, given, removedDocs, lastMem, metaFile, rawFiles,
                   chunkFiles, deletedDocs, chunkCount, voiceVars>>

\* a delete handler that deletes the files first and never calls
\* remove_document
GetDocumentStoreFirst(r) ==
    /\ At(r, "del_got")
    /\ req' = [req EXCEPT ![r].meta = {},
                          ![r].pc = IF req[r].doc \in req[r].meta THEN "del_store"
                                    ELSE "del_404"]
    /\ UNCHANGED <<status, boot, index, chunk_map, fileIndex, fileMap, metadata,
                   nextId, given, removedDocs, lastMem, storeVars, voiceVars>>

\* routers/documents.py delete_document: 404 when get_document returned None,
\* else remove_document without awaiting
GetDocument(r) ==
    /\ At(r, "del_got")
    /\ req' = [req EXCEPT ![r].meta = {},
                          ![r].pc = IF req[r].doc \in req[r].meta THEN "rm_enter"
                                    ELSE "del_404"]
    /\ UNCHANGED <<status, boot, index, chunk_map, fileIndex, fileMap, metadata,
                   nextId, given, removedDocs, lastMem, storeVars, voiceVars>>

\* document_service.delete_document: if doc_id not in metadata: return False
DdAbsent(r) ==
    /\ At(r, "dd_loaded")
    /\ req[r].doc \notin req[r].meta
    /\ req' = [req EXCEPT ![r].ok = FALSE, ![r].pc = "dd_return"]
    /\ UNCHANGED <<status, boot, index, chunk_map, fileIndex, fileMap, metadata,
                   nextId, given, removedDocs, lastMem, storeVars, voiceVars>>

\* mutant: the entry is left in the mapping that is written back
DdUnlinkKeepsEntry(r) ==
    /\ At(r, "dd_loaded")
    /\ req[r].doc \in req[r].meta
    /\ rawFiles' = rawFiles \ {req[r].doc}
    /\ chunkFiles' = [chunkFiles EXCEPT ![req[r].doc] = NoFile]
    /\ req' = [req EXCEPT ![r].pc = "sm_open"]
    /\ UNCHANGED <<status, boot, index, chunk_map, fileIndex, fileMap, metadata,
                   nextId, given, removedDocs, lastMem, metaFile, savedDocs,
                   deletedDocs, chunkCount, voiceVars>>

\* delete_document: unlink the raw file and the chunks file, del
\* metadata[doc_id], await save_metadata(metadata)
DdUnlink(r) ==
    /\ At(r, "dd_loaded")
    /\ req[r].doc \in req[r].meta
    /\ rawFiles' = rawFiles \ {req[r].doc}
    /\ chunkFiles' = [chunkFiles EXCEPT ![req[r].doc] = NoFile]
    /\ req' = [req EXCEPT ![r].meta = req[r].meta \ {req[r].doc}, ![r].pc = "sm_open"]
    /\ UNCHANGED <<status, boot, index, chunk_map, fileIndex, fileMap, metadata,
                   nextId, given, removedDocs, lastMem, metaFile, savedDocs,
                   deletedDocs, chunkCount, voiceVars>>

\* delete_document: return True
DdReturn(r) ==
    /\ At(r, "sm_closed")
    /\ req[r].kind = "delete"
    /\ deletedDocs' = deletedDocs \cup {req[r].doc}
    /\ req' = [req EXCEPT ![r].meta = {}, ![r].ok = TRUE, ![r].pc = "dd_return"]
    /\ UNCHANGED <<status, boot, index, chunk_map, fileIndex, fileMap, metadata,
                   nextId, given, removedDocs, lastMem, metaFile, rawFiles,
                   chunkFiles, savedDocs, chunkCount, voiceVars>>

\* ------------------------------------------------------- POST /query
\* a request arrives; query_rag -> retrieve -> search run without awaiting
\* (one query in flight at a time: queries write nothing that another reads)
NewQuery(r) ==
    /\ At(r, "idle")
    /\ \A o \in Reqs \ {r} : req[o].kind \notin {"query", "stream"}
    /\ \E q \in Texts, k \in TopKs, some \in BOOLEAN :
          req' = [req EXCEPT ![r] = [IdleReq EXCEPT !.kind = "query", !.pc = "q_search",
                                        !.query = q,
                                        !.topk = IF some THEN [some |-> TRUE, val |-> k]
                                                 ELSE NoTopK]]
    /\ UNCHANGED <<status, boot, index, chunk_map, fileIndex, fileMap, metadata,
                   nextId, given, removedDocs, lastMem, storeVars, voiceVars>>

\* EmbeddingService.search
Search(r) ==
    /\ At(r, "q_search")
    /\ NTotal(index) = 0 \/ (index.d = Dim /\ SearchK(index, req[r].topk) > 0)
    /\ \E order \in IF NTotal(index) = 0 THEN {<<>>}
                    ELSE IndexSearch(index, Embed(req[r].query), SearchK(index, req[r].topk)) :
          req' = [req EXCEPT ![r] = [IdleReq EXCEPT
                        !.kind = req[r].kind, !.pc = "q_searched",
                        !.query = req[r].query, !.topk = req[r].topk,
                        !.results = Resolve(index, chunk_map, Embed(req[r].query), order),
                        !.seenN = NTotal(index),
                        !.seenMap = Len(chunk_map),
                        !.seenRemoved = removedDocs]]
    /\ UNCHANGED <<status, boot, index, chunk_map, fileIndex, fileMap, metadata,
                   nextId, given, removedDocs, lastMem, storeVars, voiceVars>>

\* what index.search may return for k slots when order is the list of the k
\* nearest positions: the nearest first, and NoNeighbour in the slots it
\* found no neighbour for
LabelLists(order) ==
    {SubSeq(order, 1, j) \o [i \in 1..(Len(order) - j) |-> NoNeighbour] :
        j \in 0..Len(order)}

\* EmbeddingService.search over an index.search that may leave slots
\* without neighbour; self._chunk_map[idx] raises IndexError for a negative
\* idx on an empty list
SearchAnyLabels(r) ==
    /\ At(r, "q_search")
    /\ NTotal(index) # 0 /\ index.d = Dim /\ SearchK(index, req[r].topk) > 0
    /\ \E order \in IndexSearch(index, Embed(req[r].query), SearchK(index, req[r].topk)) :
          \E labels \in LabelLists(order) :
             IF chunk_map = <<>> /\ \E i \in 1..Len(labels) : labels[i] = NoNeighbour
             THEN req' = [req EXCEPT ![r].pc = "q_raised"]
             ELSE req' = [req EXCEPT ![r] = [IdleReq EXCEPT
                        !.kind = req[r].kind, !.pc = "q_searched",
                        !.query = req[r].query, !.topk = req[r].topk,
                        !.results = Resolve(index, chunk_map, Embed(req[r].query), labels),
                        !.seenN = NTotal(index),
                        !.seenMap = Len(chunk_map),
                        !.seenRemoved = removedDocs]]
    /\ UNCHANGED <<status, boot, index, chunk_map, fileIndex, fileMap, metadata,
                   nextId, given, removedDocs, lastMem, storeVars, voiceVars>>

\* index.search with k = min(top_k, ntotal) < 1 fails faiss's check of k
SearchRaise(r) ==
    /\ At(r, "q_search")
    /\ NTotal(index) # 0 /\ SearchK(index, req[r].topk) <= 0
    /\ Goto(r, "q_raised")
    /\ UNCHANGED <<status, boot, index, chunk_map, fileIndex, fileMap, metadata,
                   nextId, given, removedDocs, lastMem, storeVars, voiceVars>>

\* index.search checks the width of the query vector against index.d
SearchDimRaise(r) ==
    /\ At(r, "q_search")
    /\ NTotal(index) # 0 /\ index.d # Dim
    /\ Goto(r, "q_raised")
    /\ UNCHANGED <<status, boot, index, chunk_map, fileIndex, fileMap, metadata,
                   nextId, given, removedDocs, lastMem, storeVars, voiceVars>>

\* search has returned to retrieve, which goes on to its first await
SearchReturn(r) ==
    /\ At(r, "q_searched")
    /\ req' = [req EXCEPT ![r] = [IdleReq EXCEPT
                        !.kind = "query", !.pc = "q_resolve",
                        !.results = req[r].results,
                        !.seenN = req[r].seenN,
                        !.seenMap = req[r].seenMap,
                        !.seenRemoved = req[r].seenRemoved]]
    /\ UNCHANGED <<status, boot, index, chunk_map, fileIndex, fileMap, metadata,
                   nextId, given, removedDocs, lastMem, storeVars, voiceVars>>

\* retrieve resolves the results to texts and the handler returns
QResolve(r) ==
    /\ At(r, "q_resolve")
    /\ req' = [req EXCEPT ![r] = IdleReq]
    /\ UNCHANGED <<status, boot, index, chunk_map, fileIndex, fileMap, metadata,
                   nextId, given, removedDocs, lastMem, storeVars, voiceVars>>

\* --------------------------------------- rag_service, await by await
\* doc_meta.get("filename", "unknown") of a document without metadata entry
\* (the filename of a stored document is written as its id)
UnknownFile == 0

\* chunks[chunk_index] raises IndexError
IndexError == -1

\* mutant: an index past the end of the list gives the last chunk
GetChunkTextClamped(doc, chunk_index) ==
    LET f == chunkFiles[doc]
    IN IF ~f.ex THEN NoText
       ELSE IF chunk_index >= Len(f.chunks)
            THEN (IF f.chunks = <<>> THEN NoText ELSE f.chunks[Len(f.chunks)])
            ELSE f.chunks[chunk_index + 1]

\* get_chunk_text: None when the chunks file does not exist or the index is
\* past the end of its list; otherwise chunks[chunk_index], which for a list
\* of n chunks counts a negative index from the end down to -n and raises
\* IndexError below that
GetChunkText(doc, chunk_index) ==
    LET f == chunkFiles[doc]
        n == Len(f.chunks)
    IN IF ~f.ex THEN NoText
       ELSE IF chunk_index >= n THEN NoText
       ELSE IF chunk_index >= 0 THEN f.chunks[chunk_index + 1]
       ELSE IF chunk_index >= 0 - n THEN f.chunks[n + chunk_index + 1]
       ELSE IndexError

\* build_context without the test for an empty list: the join of no parts
BuildContextNoSentinel(chunks) ==
    [none |-> FALSE,
     parts |-> [k \in 1..Len(chunks) |-> <<chunks[k].filename, chunks[k].text>>]]

\* build_context: the sentinel text for no chunks, else the parts
\* "[filename]: text" joined by the separator
BuildContext(chunks) ==
    IF chunks = <<>> THEN NoContext
    ELSE [none |-> FALSE,
          parts |-> [k \in 1..Len(chunks) |-> <<chunks[k].filename, chunks[k].text>>]]

\* GET of the streaming answer: query_rag_stream -> retrieve -> search
NewStreamQuery(r) ==
    /\ At(r, "idle")
    /\ \A o \in Reqs \ {r} : req[o].kind \notin {"query", "stream"}
    /\ \E q \in Texts, k \in TopKs, some \in BOOLEAN :
          req' = [req EXCEPT ![r] = [IdleReq EXCEPT !.kind = "stream", !.pc = "q_search",
                                        !.query = q,
                                        !.topk = IF some THEN [some |-> TRUE, val |-> k]
                                                 ELSE NoTopK]]
    /\ UNCHANGED <<status, boot, index, chunk_map, fileIndex, fileMap, metadata,
                   nextId, given, removedDocs, lastMem, storeVars, voiceVars>>

\* retrieve: if not results: return []; else await load_metadata()
RetrieveResults(r) ==
    /\ At(r, "q_searched")
    /\ req' = [req EXCEPT ![r] = [IdleReq EXCEPT
                        !.kind = req[r].kind,
                        !.pc = IF req[r].results = <<>> THEN "qr_context" ELSE "rt_meta",
                        !.results = req[r].results]]
    /\ UNCHANGED <<status, boot, index, chunk_map, fileIndex, fileMap, metadata,
                   nextId, given, removedDocs, lastMem, storeVars, voiceVars>>

\* retrieve: metadata = await load_metadata()
RtLoadMetadata(r) ==
    /\ At(r, "rt_meta")
    /\ metaFile.st # "corrupt"
    /\ req' = [req EXCEPT ![r].meta = ReadMetadata, ![r].i = 1, ![r].pc = "rt_chunk"]
    /\ UNCHANGED <<status, boot, index, chunk_map, fileIndex, fileMap, metadata,
                   nextId, given, removedDocs, lastMem, storeVars, voiceVars>>

\* a retrieve that repairs as it reads: the entries of a document whose
\* chunk text cannot be read are taken out of the chunk map
RtChunkDropsStale(r) ==
    /\ At(r, "rt_chunk")
    /\ req[r].i <= Len(req[r].results)
    /\ LET res == req[r].results[req[r].i]
           text == GetChunkText(res.doc, res.chunk)
           hit == [doc |-> res.doc,
                   filename |-> IF res.doc \in req[r].meta THEN res.doc ELSE UnknownFile,
                   chunk |-> res.chunk, text |-> text, dist |-> res.dist]
       IN /\ req' = [req EXCEPT ![r].i = req[r].i + 1,
                                ![r].hits = IF text # NoText THEN Append(req[r].hits, hit)
                                            ELSE req[r].hits]
          /\ chunk_map' = IF text # NoText THEN chunk_map
                          ELSE SelectSeq(chunk_map, LAMBDA e : e[1] # res.doc)
    /\ UNCHANGED <<status, boot, index, fileIndex, fileMap, metadata,
                   nextId, given, removedDocs, lastMem, storeVars, voiceVars>>

\* retrieve, one turn of the loop: await get_chunk_text; if chunk_text: append
RtChunk(r) ==
    /\ At(r, "rt_chunk")
    /\ req[r].i <= Len(req[r].results)
    /\ LET res == req[r].results[req[r].i]
           text == GetChunkText(res.doc, res.chunk)
           hit == [doc |-> res.doc,
                   filename |-> IF res.doc \in req[r].meta THEN res.doc ELSE UnknownFile,
                   chunk |-> res.chunk, text |-> text, dist |-> res.dist]
       IN req' = [req EXCEPT ![r].i = req[r].i + 1,
                             ![r].hits = IF text # NoText THEN Append(req[r].hits, hit)
                                         ELSE req[r].hits]
    /\ UNCHANGED <<status, boot, index, chunk_map, fileIndex, fileMap, metadata,
                   nextId, given, removedDocs, lastMem, storeVars, voiceVars>>

\* retrieve: return retrieved
RtReturn(r) ==
    /\ At(r, "rt_chunk")
    /\ req[r].i > Len(req[r].results)
    /\ req' = [req EXCEPT ![r].meta = {}, ![r].i = 0, ![r].pc = "qr_context"]
    /\ UNCHANGED <<status, boot, index, chunk_map, fileIndex, fileMap, metadata,
                   nextId, given, removedDocs, lastMem, storeVars, voiceVars>>

\* a query_rag whose context lists the hits last to first
QrBuildContextReversed(r) ==
    /\ At(r, "qr_context")
    /\ req[r].kind = "query"
    /\ LET n == Len(req[r].hits)
           reversed == [k \in 1..n |-> req[r].hits[n + 1 - k]]
       IN req' = [req EXCEPT ![r].results = <<>>,
                             ![r].result = [NoResult EXCEPT !.chunks = req[r].hits,
                                                            !.context = BuildContext(reversed)],
                             ![r].pc = IF req[r].hits # <<>> THEN "qr_generate"
                                       ELSE "qr_return"]
    /\ UNCHANGED <<status, boot, index, chunk_map, fileIndex, fileMap, metadata,
                   nextId, given, removedDocs, lastMem, storeVars, voiceVars>>

\* query_rag: context = build_context(chunks); result = {...};
\* if use_llm and chunks: await llm.generate (no caller passes use_llm)
QrBuild(r) ==
    /\ At(r, "qr_context")
    /\ req[r].kind = "query"
    /\ req' = [req EXCEPT ![r].results = <<>>,
                          ![r].result = [NoResult EXCEPT !.chunks = req[r].hits,
                                                         !.context = BuildContext(req[r].hits)],
                          ![r].pc = IF req[r].hits # <<>> THEN "qr_generate"
                                    ELSE "qr_return"]
    /\ UNCHANGED <<status, boot, index, chunk_map, fileIndex, fileMap, metadata,
                   nextId, given, removedDocs, lastMem, storeVars, voiceVars>>

\* llm.generate returns: result["answer"] = answer
QrGenerate(r) ==
    /\ At(r, "qr_generate")
    /\ req' = [req EXCEPT ![r].result.answer = "text", ![r].gen = "ok",
                          ![r].pc = "qr_return"]
    /\ UNCHANGED <<status, boot, index, chunk_map, fileIndex, fileMap, metadata,
                   nextId, given, removedDocs, lastMem, storeVars, voiceVars>>

\* mutant: the exception of llm.generate leaves query_rag
QrGenerateRaisePropagates(r) ==
    /\ At(r, "qr_generate")
    /\ req' = [req EXCEPT ![r].gen = "failed", ![r].pc = "q_raised"]
    /\ UNCHANGED <<status, boot, index, chunk_map, fileIndex, fileMap, metadata,
                   nextId, given, removedDocs, lastMem, storeVars, voiceVars>>

\* llm.generate raises: except Exception sets "answer" to the error text
\* and "llm_error" to True
QrGenerateRaise(r) ==
    /\ At(r, "qr_generate")
    /\ req' = [req EXCEPT ![r].result.answer = "LLM error", ![r].result.llm_error = TRUE,
                          ![r].gen = "failed", ![r].pc = "qr_return"]
    /\ UNCHANGED <<status, boot, index, chunk_map, fileIndex, fileMap, metadata,
                   nextId, given, removedDocs, lastMem, storeVars, voiceVars>>

\* query_rag_stream: the "chunks" event; then llm.generate_stream if chunks
QsYieldChunks(r) ==
    /\ At(r, "qr_context")
    /\ req[r].kind = "stream"
    /\ req' = [req EXCEPT ![r].results = <<>>,
                          ![r].result = [NoResult EXCEPT !.chunks = req[r].hits,
                                                         !.context = BuildContext(req[r].hits)],
                          ![r].events = <<"chunks">>,
                          ![r].pc = IF req[r].hits # <<>> THEN "qs_generate" ELSE "qs_end"]
    /\ UNCHANGED <<status, boot, index, chunk_map, fileIndex, fileMap, metadata,
                   nextId, given, removedDocs, lastMem, storeVars, voiceVars>>

\* generate_stream awaits generate and yields the whole response as one token
QsToken(r) ==
    /\ At(r, "qs_generate")
    /\ req' = [req EXCEPT ![r].events = Append(req[r].events, "token"),
                          ![r].gen = "ok", ![r].pc = "qs_token"]
    /\ UNCHANGED <<status, boot, index, chunk_map, fileIndex, fileMap, metadata,
                   nextId, given, removedDocs, lastMem, storeVars, voiceVars>>

\* generate_stream is exhausted: yield {"type": "done"}
QsDone(r) ==
    /\ At(r, "qs_token")
    /\ req' = [req EXCEPT ![r].events = Append(req[r].events, "done"), ![r].pc = "qs_end"]
    /\ UNCHANGED <<status, boot, index, chunk_map, fileIndex, fileMap, metadata,
                   nextId, given, removedDocs, lastMem, storeVars, voiceVars>>

\* mutant: the completion event is emitted after the error event too
QsGenerateRaiseThenDone(r) ==
    /\ At(r, "qs_generate")
    /\ req' = [req EXCEPT ![r].events = req[r].events \o <<"error", "done">>,
                          ![r].gen = "failed", ![r].pc = "qs_end"]
    /\ UNCHANGED <<status, boot, index, chunk_map, fileIndex, fileMap, metadata,
                   nextId, given, removedDocs, lastMem, storeVars, voiceVars>>

\* generate raises inside generate_stream: except Exception yields the
\* "error" event
QsGenerateRaise(r) ==
    /\ At(r, "qs_generate")
    /\ req' = [req EXCEPT ![r].events = Append(req[r].events, "error"),
                          ![r].gen = "failed", ![r].pc = "qs_end"]
    /\ UNCHANGED <<status, boot, index, chunk_map, fileIndex, fileMap, metadata,
                   nextId, given, removedDocs, lastMem, storeVars, voiceVars>>

\* the handler returns its response, or the exception becomes a 404 / 500
Respond(r) ==
    /\ CanRun(r)
    /\ req[r].pc \in {"add_return", "add_raised", "del_404", "rm_raised", "q_raised",
                     "dd_return", "store_raised", "qr_return", "qs_end",
                     "decode_raised"}
    /\ req' = [req EXCEPT ![r] = IdleReq]
    /\ UNCHANGED <<status, boot, index, chunk_map, fileIndex, fileMap, metadata,
                   nextId, given, removedDocs, lastMem, storeVars, voiceVars>>

\* ------------------------------------------------------- specifications
Handler(r) ==
    \/ NewUpload(r) \/ UpSaveDocument(r)
    \/ AddEnter(r) \/ AddEmbed(r) \/ AddEmbedRaise(r) \/ AddIndex(r) \/ AddMap(r)
    \/ SaveIndexOpen(r) \/ SaveIndexWrite(r) \/ SaveMapOpen(r) \/ SaveMapWrite(r)
    \/ NewDelete(r) \/ DelGet(r) \/ RmEnter(r) \/ RmSetIndex(r) \/ RmSetMap(r)
    \/ RmReturn(r) \/ DelStore(r)
    \/ NewQuery(r) \/ Search(r) \/ SearchRaise(r) \/ SearchReturn(r) \/ QResolve(r)
    \/ Respond(r)

\* every operation runs to its end; the process stops only between operations
Next ==
    \/ LoadExisting \/ LoadCreate \/ Stop
    \/ \E r \in Reqs : Handler(r)

Spec == Init /\ [][Next]_vars

\* as Spec, and the process can also be killed at any statement
NextCrash ==
    \/ Next
    \/ Crash \/ LoadRaise
    \/ \E r \in Reqs : RmIndexError(r)

SpecCrash == Init /\ [][NextCrash]_vars

\* uploads and deletes with every call of document_service split at its awaits
StoreHandler(r) ==
    \/ NewUpload(r) \/ SdWriteFiles(r) \/ SdDecodeRaise(r)
    \/ LoadMetadata(r) \/ LoadMetadataRaise(r)
    \/ SdSetEntry(r) \/ SmOpen(r) \/ SmFlush(r) \/ SdReturn(r)
    \/ AddEnter(r) \/ AddEmbed(r) \/ AddEmbedRaise(r) \/ AddIndex(r) \/ AddMap(r)
    \/ SaveIndexOpen(r) \/ SaveIndexWrite(r) \/ SaveMapOpen(r) \/ SaveMapWrite(r)
    \/ NewDelete(r) \/ GetDocument(r) \/ RmEnter(r) \/ RmSetIndex(r) \/ RmSetMap(r)
    \/ RmReturn(r) \/ DdAbsent(r) \/ DdUnlink(r) \/ DdReturn(r)
    \/ Respond(r)

NextStore ==
    \/ LoadCreate
    \/ \E r \in Reqs : StoreHandler(r)

SpecStore == Init /\ [][NextStore]_vars

\* ---- uploads and deletes one at a time: a request is taken up only when
\* no other is in flight; the process may be shut down and started again
Alone(r) == \A o \in Reqs \ {r} : req[o].pc = "idle"

SeqUpload(r) == Alone(r) /\ NewUpload(r)

SeqDelete(r) == Alone(r) /\ NewDelete(r)

\* (LoadMetadataRaise and DdAbsent need a second request between two awaits
\* of the first and are never enabled here)
SeqHandler(r) ==
    \/ SeqUpload(r) \/ SdWriteFiles(r) \/ SdDecodeRaise(r)
    \/ LoadMetadata(r)
    \/ SdSetEntry(r) \/ SmOpen(r) \/ SmFlush(r) \/ SdReturn(r)
    \/ AddEnter(r) \/ AddEmbed(r) \/ AddEmbedRaise(r) \/ AddIndex(r) \/ AddMap(r)
    \/ SaveIndexOpen(r) \/ SaveIndexWrite(r) \/ SaveMapOpen(r) \/ SaveMapWrite(r)
    \/ SeqDelete(r) \/ GetDocument(r) \/ RmEnter(r) \/ RmSetIndex(r) \/ RmSetMap(r)
    \/ RmReturn(r) \/ DdUnlink(r) \/ DdReturn(r)
    \/ Respond(r)

NextSeq ==
    \/ LoadCreate
    \/ LoadExisting
    \/ Stop
    \/ \E r \in Reqs : SeqHandler(r)

SpecSeq == Init /\ [][NextSeq]_vars

\* ---- the /ws/voice session (routers/voice.py voice_websocket)
\* the most bytes the recordings of the runs hold
MaxAudio == 2

\* the bytes of one binary message (a message may carry none)
AudioMessages == {<<>>, <<1>>, <<2>>}

\* result["text"] of whisper: empty or not, with or without white space
Transcriptions == [text : {EmptyText, 1}, padded : BOOLEAN]

\* decision.action of router_service.route
RouteActions == {"analyze_screen", "query_documents", "general_chat"}

\* the handler of the session is at pc
InVoice(pc) == status = "up" /\ voice.pc = pc

\* await websocket.send_json({"type": msg, ...}) returns and the handler
\* goes on to next
Send(msg, next) ==
    voice' = [voice EXCEPT !.sent = Append(voice.sent, msg), !.pc = next]

\* the handling of an "end" message ends without a new buffer
SendOutcomeKeepsBuffer(msg) ==
    /\ Send(msg, "receive")
    /\ UNCHANGED audio_buffer

\* the send that ends the handling of an "end" message returns: line 131
\* audio_buffer = io.BytesIO() follows without an await, then the loop awaits
\* websocket.receive()
SendOutcome(msg) ==
    /\ Send(msg, "receive")
    /\ audio_buffer' = <<>>

\* what no action of the session changes
UnchangedByVoice ==
    UNCHANGED <<status, boot, index, chunk_map, fileIndex, fileMap, metadata,
                nextId, req, given, removedDocs, lastMem, storeVars>>

\* await websocket.accept(); audio_buffer = io.BytesIO()
VoiceAccept ==
    /\ InVoice("closed")
    /\ voice' = [NoSession EXCEPT !.pc = "receive", !.connected = TRUE]
    /\ audio_buffer' = <<>>
    /\ UnchangedByVoice

\* the client goes away, at any time
VoiceClientGone ==
    /\ status = "up" /\ voice.pc # "closed" /\ voice.connected
    /\ voice' = [voice EXCEPT !.connected = FALSE]
    /\ UNCHANGED audio_buffer
    /\ UnchangedByVoice

\* receive() returns the "websocket.disconnect" message: break
VoiceReceiveDisconnect ==
    /\ InVoice("receive") /\ ~voice.connected
    /\ voice' = NoSession
    /\ audio_buffer' = <<>>
    /\ UnchangedByVoice

\* a binary message: audio_buffer.write(message["bytes"])
VoiceReceiveBytes ==
    /\ InVoice("receive") /\ voice.connected
    /\ \E b \in AudioMessages :
          /\ Len(audio_buffer) + Len(b) <= MaxAudio
          /\ audio_buffer' = audio_buffer \o b
    /\ voice' = [voice EXCEPT !.last = "bytes", !.had_audio = FALSE, !.sent = <<>>]
    /\ UnchangedByVoice

\* {"type": "end"}: audio_data = audio_buffer.getvalue(); with no audio the
\* buffer is replaced and the loop goes on, else the try block is entered
VoiceReceiveEnd ==
    /\ InVoice("receive") /\ voice.connected
    /\ voice' = [voice EXCEPT !.last = "end", !.had_audio = audio_buffer # <<>>,
                              !.sent = <<>>,
                              !.pc = IF audio_buffer # <<>> THEN "v_status" ELSE "receive"]
    /\ audio_buffer' = IF audio_buffer # <<>> THEN audio_buffer ELSE <<>>
    /\ UnchangedByVoice

\* {"type": "reset"}: audio_buffer = io.BytesIO(), then the status is sent
VoiceReceiveReset ==
    /\ InVoice("receive") /\ voice.connected
    /\ voice' = [voice EXCEPT !.last = "reset", !.had_audio = FALSE, !.sent = <<>>,
                              !.pc = "v_reset_status"]
    /\ audio_buffer' = <<>>
    /\ UnchangedByVoice

\* {"type": "screenshot"} with or without an image
VoiceReceiveScreenshot ==
    /\ InVoice("receive") /\ voice.connected
    /\ \E image \in BOOLEAN :
          voice' = [voice EXCEPT !.last = "screenshot", !.had_audio = FALSE,
                                 !.sent = <<>>,
                                 !.pc = IF image THEN "v_shot_status" ELSE "v_shot_missing"]
    /\ UNCHANGED audio_buffer
    /\ UnchangedByVoice

\* a text message of another type: no branch takes it
VoiceReceiveOther ==
    /\ InVoice("receive") /\ voice.connected
    /\ voice' = [voice EXCEPT !.last = "other", !.had_audio = FALSE, !.sent = <<>>]
    /\ UNCHANGED audio_buffer
    /\ UnchangedByVoice

\* json.loads(message["text"]) raises: the exception leaves the loop
VoiceReceiveBadJson ==
    /\ InVoice("receive") /\ voice.connected
    /\ voice' = [voice EXCEPT !.last = "other", !.had_audio = FALSE, !.sent = <<>>,
                              !.pc = "v_outer"]
    /\ UNCHANGED audio_buffer
    /\ UnchangedByVoice

\* send_json "Transcribing audio..."
VoiceSendTranscribing ==
    /\ InVoice("v_status")
    /\ Send("status", "v_transcribe")
    /\ UNCHANGED audio_buffer
    /\ UnchangedByVoice

\* whisper_service.transcribe_wav_bytes(audio_data) returns
VoiceTranscribe ==
    /\ InVoice("v_transcribe")
    /\ \E t \in Transcriptions :
          voice' = [voice EXCEPT !.speech = Strip(t) # EmptyText, !.pc = "v_transcription"]
    /\ UNCHANGED audio_buffer
    /\ UnchangedByVoice

\* send_json of the transcription; if transcription.strip(): ... else: ...
VoiceSendTranscription ==
    /\ InVoice("v_transcription")
    /\ Send("transcription", IF voice.speech THEN "v_routing" ELSE "v_no_speech")
    /\ UNCHANGED audio_buffer
    /\ UnchangedByVoice

\* send_json "Routing query..."
VoiceSendRouting ==
    /\ InVoice("v_routing")
    /\ Send("status", "v_route")
    /\ UNCHANGED audio_buffer
    /\ UnchangedByVoice

\* decision = await router_service.route(transcription)
VoiceRoute ==
    /\ InVoice("v_route")
    /\ \E a \in RouteActions :
          voice' = [voice EXCEPT !.action = a,
                                 !.pc = IF a = "analyze_screen" THEN "v_screenshot"
                                        ELSE IF a = "query_documents" THEN "v_searching"
                                        ELSE "v_thinking"]
    /\ UNCHANGED audio_buffer
    /\ UnchangedByVoice

\* send_json request_screenshot
VoiceSendRequestScreenshot ==
    /\ InVoice("v_screenshot")
    /\ SendOutcome("request_screenshot")
    /\ UnchangedByVoice

\* send_json "Searching documents..."
VoiceSendSearching ==
    /\ InVoice("v_searching")
    /\ Send("status", "v_query")
    /\ UNCHANGED audio_buffer
    /\ UnchangedByVoice

\* rag_result = await query_rag(decision.question)
VoiceQuery ==
    /\ InVoice("v_query")
    /\ voice' = [voice EXCEPT !.pc = "v_rag_result"]
    /\ UNCHANGED audio_buffer
    /\ UnchangedByVoice

\* send_json rag_result
VoiceSendRagResult ==
    /\ InVoice("v_rag_result")
    /\ SendOutcome("rag_result")
    /\ UnchangedByVoice

\* send_json "Thinking..."
VoiceSendThinking ==
    /\ InVoice("v_thinking")
    /\ Send("status", "v_generate")
    /\ UNCHANGED audio_buffer
    /\ UnchangedByVoice

\* response = await llm.generate(decision.question, context=...)
VoiceGenerate ==
    /\ InVoice("v_generate")
    /\ voice' = [voice EXCEPT !.pc = "v_chat_result"]
    /\ UNCHANGED audio_buffer
    /\ UnchangedByVoice

\* send_json chat_result
VoiceSendChatResult ==
    /\ InVoice("v_chat_result")
    /\ SendOutcome("chat_result")
    /\ UnchangedByVoice

\* a handler that reports "No speech detected" as a status
VoiceSendNoSpeechAsStatus ==
    /\ InVoice("v_no_speech")
    /\ SendOutcome("status")
    /\ UnchangedByVoice

\* send_json error "No speech detected"
VoiceSendNoSpeech ==
    /\ InVoice("v_no_speech")
    /\ SendOutcome("error")
    /\ UnchangedByVoice

\* the program points of the try block of lines 46-122 where a call is made
\* that is not a send
CallsInTry == {"v_transcribe", "v_route", "v_query", "v_generate"}

\* the program points of the try block where send_json is awaited
SendsInTry == {"v_status", "v_transcription", "v_routing", "v_screenshot",
               "v_searching", "v_rag_result", "v_thinking", "v_chat_result",
               "v_no_speech"}

\* transcribe, route, query_rag or generate raises, or a send_json does
\* because the client is gone: except Exception (line 124)
VoiceRaiseInTry ==
    /\ status = "up"
    /\ \/ voice.pc \in CallsInTry
       \/ voice.pc \in SendsInTry /\ ~voice.connected
    /\ voice' = [voice EXCEPT !.pc = "v_except"]
    /\ UNCHANGED audio_buffer
    /\ UnchangedByVoice

\* except Exception: send_json error "Processing error: ..."
VoiceSendProcessingError ==
    /\ InVoice("v_except")
    /\ SendOutcome("error")
    /\ UnchangedByVoice

\* send_json "Buffer reset"
VoiceSendBufferReset ==
    /\ InVoice("v_reset_status")
    /\ Send("status", "receive")
    /\ UNCHANGED audio_buffer
    /\ UnchangedByVoice

\* send_json "Analyzing screen..."
VoiceSendAnalyzing ==
    /\ InVoice("v_shot_status")
    /\ Send("status", "v_analyze")
    /\ UNCHANGED audio_buffer
    /\ UnchangedByVoice

\* analysis = await vision_service.analyze(...) returns or raises
VoiceAnalyze ==
    /\ InVoice("v_analyze")
    /\ \E ok \in BOOLEAN :
          voice' = [voice EXCEPT !.pc = IF ok THEN "v_vision_result" ELSE "v_vision_error"]
    /\ UNCHANGED audio_buffer
    /\ UnchangedByVoice

\* send_json vision_result, or the send raises into except Exception (line 163)
VoiceSendVisionResult ==
    /\ InVoice("v_vision_result")
    /\ \/ Send("vision_result", "receive")
       \/ ~voice.connected /\ voice' = [voice EXCEPT !.pc = "v_vision_error"]
    /\ UNCHANGED audio_buffer
    /\ UnchangedByVoice

\* send_json error "Vision analysis error: ..." or "No screenshot received"
VoiceSendVisionError ==
    /\ status = "up" /\ voice.pc \in {"v_vision_error", "v_shot_missing"}
    /\ Send("error", "receive")
    /\ UNCHANGED audio_buffer
    /\ UnchangedByVoice

\* a send_json outside the try blocks, or in an except handler, raises
\* because the client is gone: the exception leaves the loop
VoiceRaiseOutOfLoop ==
    /\ status = "up"
    /\ voice.pc \in {"v_except", "v_reset_status", "v_shot_status", "v_vision_error",
                    "v_shot_missing"}
    /\ ~voice.connected
    /\ voice' = [voice EXCEPT !.pc = "v_outer"]
    /\ UNCHANGED audio_buffer
    /\ UnchangedByVoice

\* the handlers of lines 178-188: a last send_json of the error is tried
\* and what it raises is passed over; the session has ended
VoiceEnd ==
    /\ InVoice("v_outer")
    /\ voice' = NoSession
    /\ audio_buffer' = <<>>
    /\ UnchangedByVoice

NextVoice ==
    \/ LoadCreate
    \/ VoiceAccept \/ VoiceClientGone \/ VoiceReceiveDisconnect
    \/ VoiceReceiveBytes \/ VoiceReceiveEnd \/ VoiceReceiveReset
    \/ VoiceReceiveScreenshot \/ VoiceReceiveOther \/ VoiceReceiveBadJson
    \/ VoiceSendTranscribing \/ VoiceTranscribe \/ VoiceSendTranscription
    \/ VoiceSendRouting \/ VoiceRoute \/ VoiceSendRequestScreenshot
    \/ VoiceSendSearching \/ VoiceQuery \/ VoiceSendRagResult
    \/ VoiceSendThinking \/ VoiceGenerate \/ VoiceSendChatResult
    \/ VoiceSendNoSpeech \/ VoiceRaiseInTry \/ VoiceSendProcessingError
    \/ VoiceSendBufferReset \/ VoiceSendAnalyzing \/ VoiceAnalyze
    \/ VoiceSendVisionResult \/ VoiceSendVisionError
    \/ VoiceRaiseOutOfLoop \/ VoiceEnd

SpecVoice == Init /\ [][NextVoice]_vars

\* ---- queries against a persisted state that may be inconsistent
RECURSIVE IndexedVectors(_, _)
\* the vectors of the documents d.. in the order they were added
IndexedVectors(indexed, d) ==
    IF d > MaxDocs THEN <<>>
    ELSE EmbedTexts(indexed[d]) \o IndexedVectors(indexed, d + 1)

RECURSIVE IndexedEntries(_, _)
IndexedEntries(indexed, d) ==
    IF d > MaxDocs THEN <<>>
    ELSE NewEntries(d, Len(indexed[d])) \o IndexedEntries(indexed, d + 1)

\* chunk lists of a document whose chunks are different texts
DistinctChunkLists ==
    {c \in ChunkLists : \A i, j \in 1..Len(c) : i < j => c[i] # c[j]}

\* a service that has indexed the chunk lists `indexed`, over a documents
\* directory in which chunks files were deleted or shortened out of band and
\* a metadata.json that lacks entries
InitRag ==
    \E indexed \in [Docs -> DistinctChunkLists] :
        /\ status = "up"
        /\ boot = "loaded"
        /\ index = IndexAdd(IndexFlatL2(Dim), IndexedVectors(indexed, 1))
        /\ chunk_map = IndexedEntries(indexed, 1)
        /\ fileIndex = WriteIndex(index)
        /\ fileMap = JsonDump(chunk_map)
        /\ metadata \in SUBSET Docs
        /\ nextId = MaxDocs
        /\ req = [r \in Reqs |-> IdleReq]
        /\ given = indexed
        /\ removedDocs = {}
        /\ lastMem = NoMem
        /\ metaFile = MetaOk
        /\ chunkFiles \in [Docs -> {NoFile} \cup {ChunkFile(c) : c \in ChunkLists}]
        /\ \A d \in Docs : chunkFiles[d].ex =>
              /\ Len(chunkFiles[d].chunks) <= Len(indexed[d])
              /\ \A k \in 1..Len(chunkFiles[d].chunks) :
                    chunkFiles[d].chunks[k] = indexed[d][k]
        /\ rawFiles = {d \in Docs : chunkFiles[d].ex}
        /\ savedDocs = Docs
        /\ deletedDocs = {}
        /\ chunkCount = [d \in Docs |-> Len(indexed[d])]
        /\ audio_buffer = <<>>
        /\ voice = NoSession

RagHandler(r) ==
    \/ NewQuery(r) \/ NewStreamQuery(r) \/ Search(r) \/ SearchRaise(r)
    \/ RetrieveResults(r) \/ RtLoadMetadata(r) \/ RtChunk(r) \/ RtReturn(r)
    \/ QrBuild(r) \/ QrGenerate(r) \/ QrGenerateRaise(r)
    \/ QsYieldChunks(r) \/ QsToken(r) \/ QsDone(r) \/ QsGenerateRaise(r)
    \/ Respond(r)

NextRag == \E r \in Reqs : RagHandler(r)

SpecRag == InitRag /\ [][NextRag]_vars

\* ---- searches over an index.search that may report slots without neighbour
LabelsHandler(r) ==
    \/ NewQuery(r) \/ Search(r) \/ SearchAnyLabels(r) \/ SearchRaise(r)
    \/ SearchReturn(r) \/ QResolve(r) \/ Respond(r)

NextLabels == \E r \in Reqs : LabelsHandler(r)

SpecLabels == InitRag /\ [][NextLabels]_vars

\* ---- get_chunk_text called on its own, over any stored chunk lists
\* the chunk_index arguments tried: both sides of 0 and of the list's ends
ChunkIndexes == (0 - (MaxChunks + 1))..(MaxChunks + 1)

\* get_chunk_text(doc_id, chunk_index) is called: return None when the chunks
\* file does not exist, else open the file (the first await)
GctCall(r) ==
    /\ At(r, "idle")
    /\ \E doc \in Docs, ci \in ChunkIndexes :
          req' = [req EXCEPT ![r] = [IdleReq EXCEPT
                      !.kind = "chunk", !.doc = doc, !.i = ci,
                      !.pc = IF chunkFiles[doc].ex THEN "gct_read" ELSE "gct_return"]]
    /\ UNCHANGED <<status, boot, index, chunk_map, fileIndex, fileMap, metadata,
                   nextId, given, removedDocs, lastMem, storeVars, voiceVars>>

\* get_chunk_text: the file is read and parsed, the index is compared with
\* the length, chunks[chunk_index] is returned or raises
GctRead(r) ==
    /\ At(r, "gct_read")
    /\ LET text == GetChunkText(req[r].doc, req[r].i)
       IN req' = [req EXCEPT ![r].text = IF text = IndexError THEN NoText ELSE text,
                             ![r].pc = IF text = IndexError THEN "gct_raised"
                                       ELSE "gct_return"]
    /\ UNCHANGED <<status, boot, index, chunk_map, fileIndex, fileMap, metadata,
                   nextId, given, removedDocs, lastMem, storeVars, voiceVars>>

\* the caller has the value or the exception
GctDone(r) ==
    /\ CanRun(r)
    /\ req[r].pc \in {"gct_return", "gct_raised"}
    /\ req' = [req EXCEPT ![r] = IdleReq]
    /\ UNCHANGED <<status, boot, index, chunk_map, fileIndex, fileMap, metadata,
                   nextId, given, removedDocs, lastMem, storeVars, voiceVars>>

\* the chunk store holds any chunk lists; nothing is indexed
InitChunk ==
    /\ status = "up"
    /\ boot = "created"
    /\ index = IndexFlatL2(Dim)
    /\ chunk_map = <<>>
    /\ fileIndex = Absent
    /\ fileMap = Absent
    /\ chunkFiles \in [Docs -> {NoFile} \cup {ChunkFile(c) : c \in ChunkLists}]
    /\ rawFiles = {d \in Docs : chunkFiles[d].ex}
    /\ metadata = rawFiles
    /\ savedDocs = rawFiles
    /\ nextId = MaxDocs
    /\ req = [r \in Reqs |-> IdleReq]
    /\ given = [d \in Docs |-> <<>>]
    /\ removedDocs = {}
    /\ lastMem = NoMem
    /\ metaFile = MetaOk
    /\ deletedDocs = {}
    /\ chunkCount = [d \in Docs |-> Len(chunkFiles[d].chunks)]
    /\ audio_buffer = <<>>
    /\ voice = NoSession

NextChunk == \E r \in Reqs : GctCall(r) \/ GctRead(r) \/ GctDone(r)

SpecChunk == InitChunk /\ [][NextChunk]_vars

\* ---- a process started over the files of an earlier run
\* get_sentence_embedding_dimension() of the model an earlier run was
\* configured with (settings.embedding_model is read from RAG_EMBEDDING_MODEL)
ForeignDim == Dim + 1

\* the vector the model of dimension d gives for text t
EmbedWith(d, t) == [j \in 1..d |-> t * j]

RECURSIVE IndexedVectorsWith(_, _, _)
\* the vectors of the documents x.. in the order they were added, by the
\* model of dimension d
IndexedVectorsWith(d, indexed, x) ==
    IF x > MaxDocs THEN <<>>
    ELSE [i \in 1..Len(indexed[x]) |-> EmbedWith(d, indexed[x][i])]
         \o IndexedVectorsWith(d, indexed, x + 1)

\* faiss.index and chunk_map.json as an earlier run left them after indexing
\* the chunk lists `indexed` of the documents 1..n with a model of dimension d
InitDim ==
    \E d \in {Dim, ForeignDim}, n \in Docs, indexed \in [Docs -> ChunkLists] :
        /\ \A x \in Docs : x > n => indexed[x] = <<>>
        /\ status = "down"
        /\ boot = "none"
        /\ index = IndexFlatL2(Dim)
        /\ chunk_map = <<>>
        /\ fileIndex = WriteIndex(IndexAdd(IndexFlatL2(d), IndexedVectorsWith(d, indexed, 1)))
        /\ fileMap = JsonDump(IndexedEntries(indexed, 1))
        /\ metadata = 1..n
        /\ nextId = n
        /\ req = [r \in Reqs |-> IdleReq]
        /\ given = indexed
        /\ removedDocs = {}
        /\ lastMem = NoMem
        /\ metaFile = MetaOk
        /\ rawFiles = 1..n
        /\ chunkFiles = [x \in Docs |-> IF x <= n THEN ChunkFile(indexed[x]) ELSE NoFile]
        /\ savedDocs = 1..n
        /\ deletedDocs = {}
        /\ chunkCount = [x \in Docs |-> Len(indexed[x])]
        /\ audio_buffer = <<>>
        /\ voice = NoSession

NextDim ==
    \/ LoadExisting \/ Stop
    \/ \E r \in Reqs : Handler(r)
    \/ \E r \in Reqs : AddIndexRaise(r) \/ RmAddRaise(r) \/ SearchDimRaise(r)

SpecDim == InitDim /\ [][NextDim]_vars

\* ---------------------------------------------------------------- claims
\* no handler is between two awaits
Quiescent == \A r \in Reqs : req[r].pc \in AwaitPoints

\* program points between the write of the index and the write of the chunk
\* map inside one call of add_document_chunks or remove_document
BetweenIndexAndMap == {"add_map", "rm_set_map"}

\* C1: outside the two statements of one add_chunks / remove_document call,
\* after every add_chunks, remove_document, save and load, the chunk map has
\* as many entries as the index has vectors.
C1_MapLengthEqualsVectorCount ==
    (status = "up" /\ \A r \in Reqs : req[r].pc \notin BetweenIndexAndMap)
        => Len(chunk_map) = NTotal(index)

\* a loaded index on which a remove_document has rebuilt a non-empty index
C1_Witness ==
    /\ status = "up" /\ boot = "loaded"
    /\ \E r \in Reqs : /\ req[r].pc = "rm_return"
                       /\ req[r].keep # <<>>
                       /\ Len(req[r].keep) < Len(req[r].pre.map)

\* C2: chunk_map[i] names the document and local chunk index whose embedding
\* is the vector at position i.
C2_MapEntryIdentifiesVector ==
    (status = "up" /\ \A r \in Reqs : req[r].pc \notin BetweenIndexAndMap)
        => \A i \in 1..Len(chunk_map) :
              LET doc == chunk_map[i][1]
                  local == chunk_map[i][2]
              IN /\ i <= NTotal(index)
                 /\ local < Len(given[doc])
                 /\ Row(index, i - 1) = Embed(given[doc][local + 1])

\* a rebuild has moved a kept entry to a lower position, and the vectors in
\* the index are not all equal
C2_Witness ==
    /\ status = "up"
    /\ \E r \in Reqs : /\ req[r].pc = "rm_return"
                       /\ req[r].keep # <<>>
                       /\ req[r].keep[1] > 0
    /\ \E i, j \in 1..NTotal(index) : Row(index, i - 1) # Row(index, j - 1)

RECURSIVE RowsWithout(_, _, _, _)
\* the rows of the flat buffer xb at the positions i.. whose entry in map m
\* belongs to another document than doc
RowsWithout(m, xb, doc, i) ==
    IF i > Len(m) THEN <<>>
    ELSE (IF m[i][1] # doc THEN SubSeq(xb, (i - 1) * Dim + 1, i * Dim) ELSE <<>>)
         \o RowsWithout(m, xb, doc, i + 1)

MapWithout(m, doc) == LET Other(e) == e[1] # doc IN SelectSeq(m, Other)

\* C3: remove_document(x), x owning some but not all entries, leaves the old
\* chunk map without the entries of x, in their old order, and an index that
\* holds exactly the vectors of the kept positions in that order.
C3_RemoveFiltersMapAndVectors ==
    \A r \in Reqs :
        (/\ req[r].pc = "rm_return"
         /\ MapWithout(req[r].pre.map, req[r].doc) # <<>>
         /\ MapWithout(req[r].pre.map, req[r].doc) # req[r].pre.map)
        => /\ chunk_map = MapWithout(req[r].pre.map, req[r].doc)
           /\ index.xb = RowsWithout(req[r].pre.map, req[r].pre.xb, req[r].doc, 1)
           /\ NTotal(index) = Len(chunk_map)

\* the removed document's entries came first: A, then B, remove A
C3_Witness ==
    \E r \in Reqs :
        /\ req[r].pc = "rm_return"
        /\ Len(req[r].pre.map) >= 3
        /\ req[r].pre.map[1][1] = req[r].doc
        /\ req[r].pre.map[Len(req[r].pre.map)][1] # req[r].doc
        /\ Len(chunk_map) >= 2

\* C4: a search that runs after remove_document(x) has returned, and before
\* any new add_chunks for x, returns no result of document x.
C4_SearchNeverReturnsRemoved ==
    \A r \in Reqs :
        req[r].pc = "q_resolve"
        => \A k \in 1..Len(req[r].results) :
              req[r].results[k].doc \notin req[r].seenRemoved

\* a search with results, run in a restarted process after a removal
C4_Witness ==
    /\ boot = "loaded"
    /\ \E r \in Reqs : /\ req[r].pc = "q_resolve"
                       /\ req[r].results # <<>>
                       /\ req[r].seenRemoved # {}

\* C5: add_chunks(doc, chunks) with n >= 1 chunks appends the n embeddings in
\* the order of the chunks and the entries (doc,0)..(doc,n-1), and leaves the
\* earlier vectors and entries where they were.
C5_AddAppendsInOrder ==
    \A r \in Reqs :
        (req[r].pc = "add_return" /\ req[r].chunks # <<>>)
        => LET n == Len(req[r].chunks)
               n0 == Len(req[r].pre.map)
               v0 == Len(req[r].pre.xb) \div Dim
           IN /\ NTotal(index) = v0 + n
              /\ Len(chunk_map) = n0 + n
              /\ \A i \in 1..n : /\ Row(index, v0 + i - 1) = Embed(req[r].chunks[i])
                                 /\ chunk_map[n0 + i] = <<req[r].doc, i - 1>>
              /\ SubSeq(index.xb, 1, Len(req[r].pre.xb)) = req[r].pre.xb
              /\ SubSeq(chunk_map, 1, n0) = req[r].pre.map

\* two different chunks added to a non-empty index
C5_Witness ==
    \E r \in Reqs :
        /\ req[r].pc = "add_return"
        /\ Len(req[r].chunks) = 2
        /\ req[r].chunks[1] # req[r].chunks[2]
        /\ req[r].pre.map # <<>>

\* C6: when the embedding computation of add_chunks fails, the index, the
\* chunk map and the two persisted files are as they were before the call.
C6_AddAtomicOnEmbeddingFailure ==
    \A r \in Reqs :
        req[r].pc = "add_raised"
        => /\ index.xb = req[r].pre.xb
           /\ chunk_map = req[r].pre.map
           /\ fileIndex = req[r].pre.fidx
           /\ fileMap = req[r].pre.fmap

\* the embedding fails for a document added to a non-empty, persisted index
C6_Witness ==
    \E r \in Reqs :
        /\ req[r].pc = "add_raised"
        /\ req[r].pre.map # <<>>
        /\ req[r].pre.fmap.st = "ok"

\* C7: a process that starts after the previous one stopped loads the vector
\* count and the chunk map that were in memory, and saved, when it stopped.
C7_SaveLoadRoundTrip ==
    [][(status = "down" /\ status' = "up")
         => (NTotal(index') = lastMem.n /\ chunk_map' = lastMem.map)]_vars

\* a restarted process holds a loaded index that add and remove had changed
C7_Witness ==
    /\ status = "up" /\ boot = "loaded"
    /\ NTotal(index) >= 2
    /\ removedDocs # {}
    /\ Quiescent

\* the persisted pair is corrupt: one file without the other, or a chunk map
\* whose length differs from the stored vector count
CorruptPair ==
    \/ Exists(fileIndex) # Exists(fileMap)
    \/ /\ fileIndex.st = "ok" /\ fileMap.st = "ok"
       /\ Len(fileMap.items) # NTotal(ReadIndex(fileIndex))

\* C8: index initialization does not go on to a running service when only one
\* of the two files exists or the persisted map length differs from the
\* persisted vector count.
C8_LoadSurfacesCorruption ==
    [][(status = "down" /\ CorruptPair) => status' # "up"]_vars

\* number of vectors / entries a reader finds in the persisted files
PersistedVectors == IF fileIndex.st = "ok" THEN NTotal(ReadIndex(fileIndex)) ELSE 0
PersistedEntries == IF fileMap.st = "ok" THEN Len(fileMap.items) ELSE 0

\* C9: wherever the process stops, the persisted chunk map has as many
\* entries as the persisted index has vectors.
C9_PersistedPairConsistent ==
    status = "down" => PersistedEntries = PersistedVectors

\* C10: at most one handler is inside a mutation of the index, and every
\* search read a chunk map of the length of the vector storage it searched.
C10_MutationsExclusiveSearchConsistent ==
    /\ Cardinality({r \in Reqs : req[r].pc \in MutationPcs}) <= 1
    /\ \A r \in Reqs : req[r].pc = "q_resolve" => req[r].seenN = req[r].seenMap

\* a handler is inside a mutation while another handler, whose search found
\* results, is suspended
C10_Witness ==
    \E r, o \in Reqs :
        /\ r # o
        /\ req[r].pc \in MutationPcs
        /\ req[o].pc = "q_resolve"
        /\ req[o].results # <<>>

\* C12: remove_document(x) for an id with no entry in the chunk map (a second
\* call in a row included) returns without raising and leaves the index
\* vectors, the chunk map and the two persisted files as they were.
C12_RemoveAbsentIsNoOp ==
    \A r \in Reqs :
        (/\ req[r].pc \in {"rm_return", "rm_raised"}
         /\ MapWithout(req[r].pre.map, req[r].doc) = req[r].pre.map)
        => /\ req[r].pc = "rm_return"
           /\ index.xb = req[r].pre.xb
           /\ chunk_map = req[r].pre.map
           /\ fileIndex = req[r].pre.fidx
           /\ fileMap = req[r].pre.fmap

\* a second remove_document of the same id has returned while another
\* document is indexed
C12_Witness ==
    \E r \in Reqs :
        /\ req[r].pc = "rm_return"
        /\ req[r].doc \in removedDocs
        /\ req[r].pre.map # <<>>
        /\ MapWithout(req[r].pre.map, req[r].doc) = req[r].pre.map

\* the positions of the index that are not among the results rs
OtherPositions(rs) == (0..(NTotal(index) - 1)) \ {rs[i].pos : i \in 1..Len(rs)}

\* C13: search with a supplied top_k >= 1 returns at most min(top_k, ntotal)
\* results in non-decreasing distance, each one the chunk-map entry of a
\* position the nearest-neighbour search returned, with that position's
\* distance to the query; no position left out is nearer than one returned.
C13_SearchBoundedOrderedResolved ==
    \A r \in Reqs :
        (/\ req[r].pc = "q_searched"
         /\ req[r].topk.some /\ req[r].topk.val >= 1)
        => LET rs == req[r].results
               qv == Embed(req[r].query)
           IN /\ Len(rs) <= req[r].topk.val
              /\ Len(rs) <= NTotal(index)
              /\ \A i, j \in 1..Len(rs) : i < j => rs[i].dist <= rs[j].dist
              /\ \A i, j \in 1..Len(rs) : i < j => rs[i].pos # rs[j].pos
              /\ \A i \in 1..Len(rs) :
                    /\ rs[i].pos \in 0..(NTotal(index) - 1)
                    /\ <<rs[i].doc, rs[i].chunk>> = chunk_map[rs[i].pos + 1]
                    /\ rs[i].dist = Distance(Row(index, rs[i].pos), qv)
                    /\ \A p \in OtherPositions(rs) :
                          Distance(Row(index, p), qv) >= rs[i].dist

\* top_k binds (fewer results than vectors, at different distances) in one
\* search, and the vector count binds (top_k above ntotal) in another
C13_Witness ==
    \E r \in Reqs :
        /\ req[r].pc = "q_searched"
        /\ req[r].topk.some /\ req[r].topk.val = 2
        /\ Len(req[r].results) = 2
        /\ NTotal(index) > 2
        /\ req[r].results[1].dist < req[r].results[2].dist
        /\ req[r].results[1].pos > req[r].results[2].pos

\* C14: a search called with a supplied top_k below 1 does not return
\* results: it is rejected, the value is neither replaced by the default
\* nor handed to the index.
C14_NonPositiveTopKRejected ==
    \A r \in Reqs :
        (req[r].topk.some /\ req[r].topk.val < 1) => req[r].pc # "q_searched"

\* C11: once every upload and delete request has completed, every chunk-map
\* entry refers to a document that has an entry in metadata.json.
C11_NoOrphanedIndexEntries ==
    (status = "up" /\ \A r \in Reqs : req[r].pc = "idle")
        => \A i \in 1..Len(chunk_map) : chunk_map[i][1] \in ReadMetadata

\* some delete_document call has taken document d out of the store
BeingDeleted(d) ==
    \/ d \in deletedDocs
    \/ \E r \in Reqs : /\ req[r].kind = "delete" /\ req[r].doc = d
                        /\ req[r].pc \in {"sm_open", "sm_flush", "sm_closed", "dd_return"}

\* C18: whenever metadata.json holds a mapping, it has an entry for every
\* document whose ingest returned and that no delete took out, and no entry
\* for a document whose delete returned True.
C18_NoLostMetadataUpdate ==
    metaFile.st = "ok"
        => /\ \A d \in savedDocs : d \in metadata \/ BeingDeleted(d)
           /\ \A d \in deletedDocs : d \notin metadata

\* C19: a load_metadata that reads while one save_metadata is between its
\* open and its write returns the mapping from before that write or the
\* mapping being written.
C19_NoPartialWriteVisibility ==
    [][\A r \in Reqs :
          (req[r].pc \in {"sd_load", "del_get", "del_store"}
           /\ req'[r].pc = Loaded(req[r].pc))
          => \A w \in Reqs \ {r} :
                req[w].pc = "sm_flush"
                => req'[r].meta \in {metadata, req[w].meta}]_vars

\* program points of a handler inside document_service.delete_document
InDeleteDocument(r) ==
    /\ req[r].kind = "delete"
    /\ req[r].pc \in {"del_store", "dd_loaded", "sm_open", "sm_flush", "sm_closed"}

Resolvable(res) ==
    /\ chunkFiles[res.doc].ex
    /\ res.chunk < Len(chunkFiles[res.doc].chunks)

\* the hits retrieve owes for the search results rs
ExpectedHits(rs) ==
    LET kept == SelectSeq(rs, Resolvable)
    IN [k \in 1..Len(kept) |->
          [doc |-> kept[k].doc,
           filename |-> IF kept[k].doc \in metadata THEN kept[k].doc ELSE UnknownFile,
           chunk |-> kept[k].chunk,
           text |-> chunkFiles[kept[k].doc].chunks[kept[k].chunk + 1],
           dist |-> kept[k].dist]]

\* C15: retrieve returns, in the order of the search results, exactly the
\* results whose chunk text resolves (file present, index inside the list),
\* each with its stored text and with the filename "unknown" when the
\* document has no metadata entry; it raises for no search result.
C15_RetrieveDropsUnresolvable ==
    \A r \in Reqs :
        /\ req[r].pc = "qr_context" => req[r].hits = ExpectedHits(req[r].results)
        /\ req[r].pc = "q_raised" => req[r].results = <<>> /\ req[r].i = 0

\* one retrieve met a missing chunks file, an index past the end of a list,
\* and a resolved chunk of a document without metadata entry
C15_Witness ==
    \E r \in Reqs :
        /\ req[r].pc = "qr_context"
        /\ \E x \in 1..Len(req[r].results) : ~chunkFiles[req[r].results[x].doc].ex
        /\ \E y \in 1..Len(req[r].results) :
              /\ chunkFiles[req[r].results[y].doc].ex
              /\ req[r].results[y].chunk >= Len(chunkFiles[req[r].results[y].doc].chunks)
        /\ \E z \in 1..Len(req[r].hits) : req[r].hits[z].filename = UnknownFile

\* C16: query_rag calls llm.generate if and only if retrieve returned a hit;
\* a failing generation is not raised: the result carries llm_error and the
\* hits and the context retrieval produced.
C16_GenerateIffHitsFailureRecorded ==
    \A r \in Reqs :
        req[r].kind = "query"
        => /\ req[r].pc = "qr_return" => ((req[r].gen # "none") <=> (req[r].hits # <<>>))
           /\ req[r].pc = "qr_return" /\ req[r].gen = "ok"
                 => ~req[r].result.llm_error /\ req[r].result.answer = "text"
           /\ req[r].gen = "failed"
                 => /\ req[r].pc = "qr_return"
                    /\ req[r].result.llm_error
                    /\ req[r].result.chunks = req[r].hits
                    /\ req[r].result.context = BuildContext(req[r].hits)
                    /\ req[r].result.chunks # <<>>

\* generation has failed on a query with two hits
C16_Witness ==
    \E r \in Reqs :
        /\ req[r].kind = "query" /\ req[r].pc = "qr_return"
        /\ req[r].gen = "failed"
        /\ Len(req[r].result.chunks) >= 2

\* C17: in the stream the first event is the "chunks" event and only the
\* first, no event follows a "done" or "error" event, and a stream whose
\* generation was attempted ends with one terminal event: "done" after a
\* successful generation, "error" and no "done" after a failed one.
C17_StreamEventOrder ==
    \A r \in Reqs :
        req[r].kind = "stream"
        => LET ev == req[r].events
           IN /\ ev # <<>> => ev[1] = "chunks"
              /\ \A k \in 2..Len(ev) : ev[k] # "chunks"
              /\ \A k \in 1..(Len(ev) - 1) : ev[k] \notin {"done", "error"}
              /\ req[r].gen = "failed" => \A k \in 1..Len(ev) : ev[k] # "done"
              /\ (req[r].pc = "qs_end" /\ req[r].hits # <<>>)
                    => /\ req[r].gen # "none"
                       /\ ev[Len(ev)] = IF req[r].gen = "ok" THEN "done" ELSE "error"

\* a stream has ended with the error event after the chunks event
C17_Witness ==
    \E r \in Reqs :
        /\ req[r].kind = "stream" /\ req[r].pc = "qs_end"
        /\ req[r].events = <<"chunks", "error">>

\* C25: remove_document(x) on a non-empty chunk map whose entries all belong
\* to x leaves an empty index of the dimension the index had before the
\* call and an empty chunk map, and the two files hold that empty pair.
C25_RemoveAllResetsSameDimension ==
    \A r \in Reqs :
        (/\ req[r].pc = "rm_return"
         /\ req[r].pre.map # <<>>
         /\ MapWithout(req[r].pre.map, req[r].doc) = <<>>)
        => /\ NTotal(index) = 0 /\ chunk_map = <<>>
           /\ index.d = req[r].pre.d
           /\ fileIndex = WriteIndex(IndexFlatL2(req[r].pre.d))
           /\ fileMap = JsonDump(<<>>)

\* C26: while the process is up the dimension of the index stays what it was
\* when the index was created or loaded.
C26_DimensionFixed ==
    [][(status = "up" /\ status' = "up") => index'.d = index.d]_vars

\* C21: get_chunk_text returns the stored chunk when 0 <= chunk_index < N for
\* a document with N stored chunks, and for every other index (at or past N,
\* or negative) and for a document without chunks file returns None without
\* raising.
C21_ChunkTextOnlyInRange ==
    \A r \in Reqs :
        req[r].pc \in {"gct_return", "gct_raised"}
        => LET f == chunkFiles[req[r].doc]
           IN /\ req[r].pc = "gct_return"
              /\ req[r].text = IF f.ex /\ 0 <= req[r].i /\ req[r].i < Len(f.chunks)
                               THEN f.chunks[req[r].i + 1]
                               ELSE NoText

\* C24: when the index holds no vectors, search returns the empty list
\* without raising (whatever top_k is), retrieve returns no hits, build_context
\* returns the sentinel 'No relevant documents found.' and llm.generate /
\* generate_stream is not called.
C24_EmptyIndexNoHitsNoGeneration ==
    NTotal(index) = 0 =>
        \A r \in Reqs :
            /\ req[r].pc \notin {"q_raised", "rt_meta", "rt_chunk",
                                 "qr_generate", "qs_generate", "qs_token"}
            /\ req[r].results = <<>>
            /\ req[r].hits = <<>>
            /\ req[r].gen = "none"
            /\ req[r].pc \in {"qr_return", "qs_end"} =>
                  /\ req[r].result.chunks = <<>>
                  /\ req[r].result.context = NoContext
                  /\ req[r].result.answer = "none"

\* query_rag has returned over an empty index for a query whose top_k is
\* not positive, while the chunk store lists documents
C24_Witness ==
    \E r \in Reqs :
        /\ NTotal(index) = 0
        /\ req[r].pc = "qr_return"
        /\ req[r].result.context = NoContext
        /\ metadata # {}

\* the request is in, enters or leaves the retrieval pipeline
InPipeline(k) == k \in {"query", "stream"}

\* C27: no step of search, retrieve, build_context, query_rag or
\* query_rag_stream changes the index vectors, the chunk map, the two
\* persisted files, metadata.json, the raw text files or the chunks files,
\* whether the call returns, raises or records a failed generation.
C27_RetrievalReadOnly ==
    [][(\E r \in Reqs : /\ req'[r] # req[r]
                        /\ InPipeline(req[r].kind) \/ InPipeline(req'[r].kind))
       => /\ index' = index /\ chunk_map' = chunk_map
          /\ fileIndex' = fileIndex /\ fileMap' = fileMap
          /\ metadata' = metadata /\ metaFile' = metaFile
          /\ rawFiles' = rawFiles /\ chunkFiles' = chunkFiles]_vars

\* a streaming answer over a stored document has ended after its token,
\* having dropped a result whose chunk text is not stored
C27_Witness ==
    \E r \in Reqs :
        /\ req[r].kind = "stream" /\ req[r].pc = "qs_end"
        /\ req[r].events = <<"chunks", "token", "done">>
        /\ Len(req[r].result.chunks) < NTotal(index)
        /\ fileIndex = WriteIndex(index) /\ fileMap = JsonDump(chunk_map)

\* a is b with some elements left out, the others in b's order
RECURSIVE IsSubsequence(_, _)
IsSubsequence(a, b) ==
    IF a = <<>> THEN TRUE
    ELSE IF b = <<>> THEN FALSE
    ELSE IF Head(a) = Head(b) THEN IsSubsequence(Tail(a), Tail(b))
    ELSE IsSubsequence(a, Tail(b))

\* what identifies a search result or a hit: document, chunk index, distance
Keys(s) == [k \in 1..Len(s) |-> <<s[k].doc, s[k].chunk, s[k].dist>>]

\* C28: the hits of retrieve are search results in the order search returned
\* them (some left out, none moved), and build_context on a non-empty hit
\* list gives one "[filename]: text" part per hit, in the order of the hits.
C28_HitsAndContextKeepSearchOrder ==
    \A r \in Reqs :
        /\ req[r].pc \in {"rt_chunk", "qr_context"}
              => IsSubsequence(Keys(req[r].hits), Keys(req[r].results))
        /\ (req[r].pc \in {"qr_generate", "qr_return", "qs_generate", "qs_token", "qs_end"}
            /\ req[r].result.chunks # <<>>)
              => LET c == req[r].result.chunks
                     ctx == req[r].result.context
                 IN /\ ~ctx.none
                    /\ Len(ctx.parts) = Len(c)
                    /\ \A k \in 1..Len(c) : ctx.parts[k] = <<c[k].filename, c[k].text>>
                    /\ \A k \in 1..(Len(c) - 1) : c[k].dist <= c[k + 1].dist

\* query_rag has returned an answer over hits of two different files, having
\* left out a search result whose text is not stored
C28_Witness ==
    \E r \in Reqs :
        /\ req[r].kind = "query" /\ req[r].pc = "qr_return" /\ req[r].gen = "ok"
        /\ Len(req[r].result.chunks) = 2
        /\ req[r].result.chunks[1].filename # req[r].result.chunks[2].filename
        /\ req[r].result.chunks[1].text # req[r].result.chunks[2].text
        /\ NTotal(index) > 2

\* C29: add_document_chunks with an empty chunk list returns without raising
\* and leaves the index vectors, the chunk map and the two persisted files as
\* they were.
C29_AddEmptyIsNoOp ==
    \A r \in Reqs :
        (/\ req[r].kind = "upload"
         /\ req[r].pc \in {"add_embed", "add_index", "add_map", "save_idx_open",
                           "save_idx_write", "save_map_open", "save_map_write",
                           "add_return", "add_raised"}
         /\ req[r].chunks = <<>>)
        => /\ req[r].pc = "add_return"
           /\ index.xb = req[r].pre.xb
           /\ chunk_map = req[r].pre.map
           /\ fileIndex = req[r].pre.fidx
           /\ fileMap = req[r].pre.fmap

\* add_document_chunks has returned for a document without chunks, once on
\* a store that holds another document and once before any save
C29_Witness ==
    \E r \in Reqs :
        /\ req[r].pc = "add_return"
        /\ req[r].chunks = <<>>
        /\ req[r].pre.map # <<>>

\* C30: a streaming answer that has ended has exactly one terminal event
\* ("done" or "error"), and it is its last event, also when retrieve returned
\* no hits and generation was skipped.
C30_StreamEndsWithOneTerminalEvent ==
    \A r \in Reqs :
        (req[r].kind = "stream" /\ req[r].pc = "qs_end")
        => LET ev == req[r].events
           IN /\ ev # <<>>
              /\ ev[Len(ev)] \in {"done", "error"}
              /\ Cardinality({k \in 1..Len(ev) : ev[k] \in {"done", "error"}}) = 1

\* C22: an upload of bytes that are not valid text fails and leaves the chunk
\* store as it was: no raw file, no chunks file and no metadata entry exists
\* for the rejected document, and the chunk map has no entry of it.
C22_InvalidBytesLeaveNothing ==
    \A r \in Reqs :
        req[r].pc = "decode_raised"
        => /\ req[r].doc \notin rawFiles
           /\ ~chunkFiles[req[r].doc].ex
           /\ req[r].doc \notin metadata
           /\ \A i \in 1..Len(chunk_map) : chunk_map[i][1] # req[r].doc

\* a delete_document call is between its unlinks and its return for d
DeleteInProgress(d) ==
    \E r \in Reqs : /\ req[r].kind = "delete" /\ req[r].doc = d
                     /\ req[r].pc \in {"sm_open", "sm_flush", "sm_closed"}

\* C23: for every document with an entry in metadata.json that no delete is
\* working on, the chunks file holds exactly chunk_count chunks, addressed
\* 0..chunk_count-1 in the file's order, none of them empty once stripped.
C23_ChunkListMatchesChunkCount ==
    metaFile.st = "ok"
        => \A d \in metadata :
              ~DeleteInProgress(d)
              => /\ chunkFiles[d].ex
                 /\ Len(chunkFiles[d].chunks) = chunkCount[d]
                 /\ DOMAIN chunkFiles[d].chunks = 1..chunkCount[d]
                 /\ \A k \in 1..Len(chunkFiles[d].chunks) :
                       chunkFiles[d].chunks[k] # EmptyText

\* the number of chunk-map entries of document d
EntriesOf(d) == Len(SelectSeq(chunk_map, LAMBDA e : e[1] = d))

\* C31: when uploads and deletes run one at a time, in every state, the
\* points inside a request included, every chunk-map entry (d, i) has its
\* text: the chunks file of d exists and i is less than the length of its
\* list; and when an upload has completed the chunk map has chunk_count
\* entries of the document.
C31_EveryEntryResolvesWhenSequential ==
    /\ \A k \in 1..Len(chunk_map) :
          /\ chunkFiles[chunk_map[k][1]].ex
          /\ chunk_map[k][2] >= 0
          /\ chunk_map[k][2] < Len(chunkFiles[chunk_map[k][1]].chunks)
    /\ \A r \in Reqs :
          (req[r].kind = "upload" /\ req[r].pc = "add_return")
          => EntriesOf(req[r].doc) = chunkCount[req[r].doc]

\* the second upload has completed with two chunks after the first document
\* was deleted, in a process that was started over the files of an earlier run
C31_Witness ==
    \E r \in Reqs :
        /\ req[r].kind = "upload" /\ req[r].pc = "add_return"
        /\ EntriesOf(req[r].doc) = 2
        /\ deletedDocs # {}
        /\ boot = "loaded"

\* the client message read in this step is a binary one
ReadsBytes ==
    /\ voice.pc = "receive" /\ voice'.pc = "receive"
    /\ voice.connected /\ voice'.connected
    /\ voice'.last = "bytes"

\* C32: in a /ws/voice session a binary message only appends to the audio
\* buffer, and whenever the handler is back at receive() after an "end"
\* message (without audio, processed, or failed with a reported error) or a
\* "reset" message, the buffer is empty.
C32_NoAudioLeakBetweenRecordings ==
    [][/\ (voice'.pc = "receive" /\ voice'.last \in {"end", "reset"})
             => audio_buffer' = <<>>
       /\ ReadsBytes
             => /\ Len(audio_buffer') >= Len(audio_buffer)
                /\ \A k \in 1..Len(audio_buffer) : audio_buffer'[k] = audio_buffer[k]]_vars

\* the handler is back at receive() after an "end" whose audio was
\* transcribed and whose routing failed
C32_Witness ==
    /\ voice.pc = "receive" /\ voice.last = "end" /\ voice.had_audio
    /\ voice.sent = <<"status", "transcription", "status", "error">>
    /\ audio_buffer = <<>>

\* the messages that answer a recording
Outcomes == {"request_screenshot", "rag_result", "chat_result", "error"}

\* C33: when the handler is back at receive() after an "end" message that
\* found audio, it has sent exactly one message of request_screenshot,
\* rag_result, chat_result, error, as the last one, after status and
\* transcription messages only; after an "end" that found no audio it has
\* sent nothing.
C33_OneOutcomePerRecording ==
    (voice.pc = "receive" /\ voice.last = "end")
    => IF voice.had_audio
       THEN /\ voice.sent # <<>>
            /\ voice.sent[Len(voice.sent)] \in Outcomes
            /\ \A k \in 1..(Len(voice.sent) - 1) :
                  voice.sent[k] \in {"status", "transcription"}
       ELSE voice.sent = <<>>

\* a recording was answered with the result of query_rag
C33_Witness ==
    /\ voice.pc = "receive" /\ voice.last = "end" /\ voice.had_audio
    /\ voice.sent = <<"status", "transcription", "status", "status", "rag_result">>

\* C34: every result of search is the chunk-map entry at a position
\* 0 <= idx < len(chunk_map) that index.search returned; a returned position
\* outside that range, the negative "no neighbour" one included, gives no
\* result.
C34_ResultsFromValidPositions ==
    \A r \in Reqs :
        req[r].pc = "q_searched"
        => \A k \in 1..Len(req[r].results) :
              LET res == req[r].results[k]
              IN /\ 0 <= res.pos /\ res.pos < Len(chunk_map)
                 /\ <<res.doc, res.chunk>> = chunk_map[res.pos + 1]

====
